---------------------------- MODULE Spec2Model ----------------------------
(***************************************************************************)
(* A model of the blizzardgw gateway: the JSON-RPC dispatchers             *)
(* (internal/rpc), the event bus (internal/events), the webhook ingestion  *)
(* handler (internal/webhook) and the per-connection WebSocket session     *)
(* (internal/ws).                                                          *)
(*                                                                         *)
(* Three specifications share the variables:                               *)
(*   SpecDisp  one dispatcher, driven by arbitrary requests and replies    *)
(*   SpecBus   the bus, driven by arbitrary subscribers and webhook posts  *)
(*   Spec      one session with its dispatcher, the bus and the webhook    *)
(***************************************************************************)
EXTENDS Integers, Sequences, FiniteSets, TLC

VARIABLES
    \* ---- dispatcher (rpc.Dispatcher.Handle in progress)
    disp,       \* the dispatcher value the caller holds
    dpc,        \* "idle" | "call" | "wait" | "done": position inside Handle
    dreq,       \* the *Request given to Handle
    di,         \* index into Services of the current loop iteration
    attempts,   \* the attempts slice of Handle
    lastErr,    \* the lastErr variable of Handle
    dresp,      \* the *Response Handle returns (set = FALSE: nil)
    upcalls,    \* the WRP messages handed to Client.Do by this Handle call
    replies,    \* what those Client.Do calls returned, in order
    http,       \* the upgrade request ServeHTTP serves, with the Handler and
                \* the environment it reads
    wc,         \* the WRPClient and the HTTP request its Do builds
    hook,       \* the webhook requests received so far, in order (kept only
                \* where the handler's answers are compared with them)
    \* ---- event bus
    subs,       \* Bus.subs: the set of ids in the table
    chans,      \* id -> the channel made by Subscribe(buffer)
    next,       \* Bus.next
    pubs,       \* webhook request handler -> its position and local variables
    cancelled,  \* ids whose cancel has been called and has returned
    cancels,    \* number of cancel invocations so far
    posts,      \* number of webhook requests so far
    faults,     \* Go runtime panics raised so far, and enqueues after cancel
    \* ---- session (client.run and its goroutines)
    sess,       \* the session's configuration and local variables
    rpc,        \* position of the reader (run itself)
    ppc,        \* position of the ping goroutine
    fpc,        \* position of the event forwarder goroutine
    mu,         \* client.mu: "" or the task holding it
    done,       \* the done channel is closed (number of closes)
    wire,       \* data frames written to the socket, in order
    nread,      \* frames the reader has read so far
    npings      \* ticks delivered by the ticker so far

dispVars == <<disp, dpc, dreq, di, attempts, lastErr, dresp, upcalls, replies, http, wc, hook>>
busVars  == <<subs, chans, next, pubs, cancelled, cancels, posts, faults>>
sessVars == <<sess, rpc, ppc, fpc, mu, done, wire, nread, npings>>
vars     == <<dispVars, busVars, sessVars>>

-----------------------------------------------------------------------------
(* Bounds of the model. *)

\* longest service list of a multi-service dispatcher
MaxServices == 2

\* calls made on the bus (SpecBus): Subscribe, cancel handles and webhook
\* requests, taken together
MaxBusCalls == 4

\* webhook requests served at the same time
MaxPublishers == 2

\* inputs of a session (Spec): frames the client sends, webhook requests
\* served while it runs, ticks of the ping ticker, taken together
MaxInputs == 2

-----------------------------------------------------------------------------
(* JSON-RPC values: rpc.Request, rpc.Response, rpc.Error. *)

\* json.RawMessage ids: absent, a quoted string
Ids == {"", "\"abc\""}

Methods == {"Device.Ping", ""}

Request(id, method) == [jsonrpc |-> "2.0", id |-> id, method |-> method]

Requests == {Request(id, m) : id \in Ids, m \in Methods}

\* the nil *Error
NoError == [set |-> FALSE, code |-> 0, message |-> "", attempts |-> <<>>, data |-> ""]

Error(code, message, atts, data) ==
    [set |-> TRUE, code |-> code, message |-> message, attempts |-> atts, data |-> data]

\* the nil interface{} of Response.Result
NoResult == [t |-> "none", v |-> "", form |-> ""]

\* the nil *Response
NilResponse == [set |-> FALSE, jsonrpc |-> "", id |-> "", result |-> NoResult, error |-> NoError]

Response(id, result, error) ==
    [set |-> TRUE, jsonrpc |-> "2.0", id |-> id, result |-> result, error |-> error]


-----------------------------------------------------------------------------
(* What Client.Do returns: a Go error, or a WRP message whose payload is    *)
(* some bytes. A payload is modelled by its bytes (a label) together with   *)
(* what encoding/json makes of them: form says whether the bytes are a JSON *)
(* object, another JSON value, not JSON, a zero-length slice or a nil       *)
(* slice; the other fields are the members json.Unmarshal finds in an       *)
(* object.                                                                  *)

\* the result members a device sends, as bytes: an object, and an integer
\* above 2^53
DeviceResults ==
    {[t |-> "json", v |-> "{\"ok\":true}", form |-> "object"],
     [t |-> "json", v |-> "9007199254740993", form |-> "value"]}

\* an error object a device sends, with its own code, message and data
DeviceError(code) == Error(code, "device says no", <<>>, "device data")

Payload(bytes, form, jsonrpc, id, result, error) ==
    [bytes |-> bytes, form |-> form, jsonrpc |-> jsonrpc, id |-> id,
     result |-> result, error |-> error]

\* the ids a device may put into its envelope for request r: none, the
\* request's, another one, the JSON null
DeviceIds(r) == {"", r.id, "\"zzz\"", "null"}

Envelopes(r) ==
    {Payload("envelope", "object", "2.0", id, b[1], b[2]) :
        id \in DeviceIds(r),
        b \in {<<res, NoError>> : res \in DeviceResults} \cup
              {<<NoResult, DeviceError(-32000)>>,
               <<NoResult, DeviceError(-32100)>>,
               <<NoResult, NoError>>}}

NonEnvelopes ==
    {Payload("{\"foo\":1}", "object", "", "", NoResult, NoError),
     Payload("{\"jsonrpc\":\"1.0\",\"id\":7}", "object", "1.0", "7", NoResult, NoError),
     Payload("123", "value", "", "", NoResult, NoError),
     Payload("not json", "invalid", "", "", NoResult, NoError),
     Payload("", "empty", "", "", NoResult, NoError),
     Payload("", "nil", "", "", NoResult, NoError)}

NoPayload == Payload("", "nil", "", "", NoResult, NoError)

\* the errors Client.Do returns: a network failure, a non-2xx status, a 2xx
\* body that does not decode as a WRP message
SendErrors == {"network unreachable", "upstream returned non-2xx status", "decode wrp"}

Replies(r) ==
    {[err |-> e, payload |-> NoPayload] : e \in SendErrors}
    \cup {[err |-> "", payload |-> p] : p \in Envelopes(r) \cup NonEnvelopes}

\* the replies the session's upstream gives: a failure, an envelope with the
\* request's id and a result, an envelope without id and with an error, and
\* every payload that is no envelope
SessionReplies(r) ==
    {[err |-> "network unreachable", payload |-> NoPayload],
     [err |-> "", payload |-> Payload("envelope", "object", "2.0", r.id,
                                      CHOOSE res \in DeviceResults : res.form = "object",
                                      NoError)],
     [err |-> "", payload |-> Payload("envelope", "object", "2.0", "",
                                      NoResult, DeviceError(-32000))]}
    \cup {[err |-> "", payload |-> p] :
            p \in {q \in NonEnvelopes : q.bytes \in {"{\"foo\":1}", "not json", ""}}}

\* json.Unmarshal(payload, &jr) returns no error: the bytes are a JSON object
JsonUnmarshalOK(payload) == payload.form = "object"

\* json.RawMessage(upstream.Payload) held by Response.Result
RawResult(payload) == [t |-> "raw", v |-> payload.bytes, form |-> payload.form]

-----------------------------------------------------------------------------
(* The dispatchers. *)

ServiceNames == <<"BlizzardRDK", "config", "legacy", "spare">>

ServiceLists == {SubSeq(ServiceNames, 1, k) : k \in 0..MaxServices}

EchoDispatcher ==
    [kind |-> "echo", hasClient |-> FALSE, source |-> "", dest |-> "", service |-> "",
     prefix |-> "", device |-> "", services |-> <<>>]

MultiServiceDispatcher(client, source, device, prefix, services) ==
    [kind |-> "multi", hasClient |-> client, source |-> source, dest |-> "",
     service |-> "", prefix |-> prefix, device |-> device, services |-> services]

\* the single-service dispatcher: Client, Source, Dest, ServiceName
WRPDispatcher(source, dest, svc) ==
    [kind |-> "single", hasClient |-> TRUE, source |-> source, dest |-> dest,
     service |-> svc, prefix |-> "", device |-> "", services |-> <<svc>>]

Dispatchers ==
    {MultiServiceDispatcher(c, "blizzard/gateway", "dev1", "mac:", s) :
        c \in BOOLEAN, s \in ServiceLists}
    \cup {EchoDispatcher,
          WRPDispatcher("blizzard/gateway", "mac:dev1/BlizzardRDK", "BlizzardRDK")}

\* EchoDispatcher.Handle
EchoHandle(r) ==
    IF r.method = ""
    THEN Response(r.id, NoResult, Error(-32600, "invalid request", <<>>, ""))
    ELSE Response(r.id, [t |-> "echo", v |-> r.method, form |-> "object"], NoError)

\* the destination of one attempt
Dest(d, svc) ==
    IF d.kind = "single" THEN d.dest ELSE d.prefix \o d.device \o "/" \o svc

\* json.Marshal(r), made once before the loop: the id is omitempty, so a
\* request without id is serialized without the member
Marshal(r) ==
    [jsonrpc |-> r.jsonrpc, hasId |-> r.id # "", id |-> r.id, method |-> r.method]

\* a message whose transaction id is the string the JSON id stands for
WRPMessageIdValue(d, r, svc) ==
    [type |-> "SimpleRequestResponse", source |-> d.source, dest |-> Dest(d, svc),
     service |-> svc, txn |-> IF r.id = "\"abc\"" THEN "abc" ELSE r.id,
     ctype |-> "application/json", payload |-> Marshal(r)]

\* the wrp.Message of one attempt; TransactionUUID is string(r.ID)
WRPMessage(d, r, svc) ==
    [type |-> "SimpleRequestResponse", source |-> d.source, dest |-> Dest(d, svc),
     service |-> svc, txn |-> r.id, ctype |-> "application/json",
     payload |-> Marshal(r)]

\* the id of a forwarded envelope: the device's, or the request's when blank
ForwardId(r, payload) == IF payload.id = "" THEN r.id ELSE payload.id

\* json.Unmarshal into the interface{} of Response.Result: a JSON number
\* becomes a float64, so an integer above 2^53 is rounded to the nearest
\* float64 (9007199254740993 to 9007199254740992); other values keep their
\* meaning
DecodeInterface(res) ==
    IF res.v = "9007199254740993"
    THEN [res EXCEPT !.v = "9007199254740992"]
    ELSE res

\* an Unwrap that forwards every JSON object, whatever its version tag
UnwrapAnyObject(r, payload) ==
    IF JsonUnmarshalOK(payload)
    THEN [set |-> TRUE, jsonrpc |-> payload.jsonrpc, id |-> ForwardId(r, payload),
          result |-> DecodeInterface(payload.result), error |-> payload.error]
    ELSE Response(r.id, RawResult(payload), NoError)

\* a reply without error: forward the envelope, or wrap the payload bytes
Unwrap(r, payload) ==
    IF JsonUnmarshalOK(payload) /\ payload.jsonrpc = "2.0"
    THEN [set |-> TRUE, jsonrpc |-> payload.jsonrpc, id |-> ForwardId(r, payload),
          result |-> DecodeInterface(payload.result), error |-> payload.error]
    ELSE Response(r.id, RawResult(payload), NoError)

\* an exhausted response that reports the last attempt only
ExhaustedLastOnly(r, atts, last) ==
    [set |-> TRUE, jsonrpc |-> "2.0", id |-> r.id, result |-> NoResult,
     error |-> [set |-> TRUE, code |-> -32100, message |-> "transport error",
                attempts |-> SubSeq(atts, Len(atts), Len(atts)), data |-> last]]

\* preconditions that let a dispatcher without services or without client go
\* on to its first call
HandleEnterUnchecked(r) ==
    /\ dreq' = r
    /\ attempts' = <<>>
    /\ lastErr' = ""
    /\ upcalls' = <<>>
    /\ replies' = <<>>
    /\ UNCHANGED <<disp, http, wc, hook>>
    /\ IF disp.kind = "echo"
       THEN dpc' = "done" /\ di' = 0 /\ dresp' = EchoHandle(r)
       ELSE IF Len(disp.services) = 0
       THEN /\ dpc' = "done" /\ di' = 0
            /\ dresp' = [set |-> TRUE, jsonrpc |-> "2.0", id |-> r.id, result |-> NoResult,
                         error |-> [set |-> TRUE, code |-> -32603,
                                    message |-> "no services configured",
                                    attempts |-> <<>>, data |-> ""]]
       ELSE dpc' = "call" /\ di' = 1 /\ dresp' = NilResponse

\* the response when every service failed
Exhausted(r, atts, last) ==
    Response(r.id, NoResult, Error(-32100, "transport error", atts, last))

\* fmt.Errorf("svc=%s dest=%s err=%w", ...)
AttemptError(svc, dest, err) == "svc=" \o svc \o " dest=" \o dest \o " err=" \o err

\* a loop that also goes on after a device's own -32100 error
ContinuesOnTransportCode(reply) ==
    reply.err # "" \/ (reply.payload.error.set /\ reply.payload.error.code = -32100)

\* a loop that takes whatever Client.Do returned as the reply
ContinuesNever(reply) == FALSE

\* a loop that takes a reply whose body did not decode as a payload
ContinuesUnlessDecode(reply) == reply.err \notin {"", "decode wrp"}

\* does the loop go on to the next service after this reply?
Continues(reply) == reply.err # ""


\* the response of the single-service dispatcher to a transport failure
SingleTransportError(d, r, err) ==
    Response(r.id, NoResult,
             Error(-32100, "transport error", <<>>,
                   AttemptError(d.service, d.dest, err)))

\* Handle, from its entry to the first upstream call or an early return
HandleEnter(r) ==
    /\ dreq' = r
    /\ attempts' = <<>>
    /\ lastErr' = ""
    /\ upcalls' = <<>>
    /\ replies' = <<>>
    /\ UNCHANGED <<disp, http, wc, hook>>
    /\ IF disp.kind = "echo"
       THEN dpc' = "done" /\ di' = 0 /\ dresp' = EchoHandle(r)
       ELSE IF Len(disp.services) = 0
       THEN /\ dpc' = "done" /\ di' = 0
            /\ dresp' = Response(r.id, NoResult,
                                 Error(-32603, "no services configured", <<>>, ""))
       ELSE IF ~disp.hasClient
       THEN /\ dpc' = "done" /\ di' = 0
            /\ dresp' = Response(r.id, NoResult,
                                 Error(-32603, "no client configured", <<>>, ""))
       ELSE dpc' = "call" /\ di' = 1 /\ dresp' = NilResponse

\* one loop iteration up to Client.Do: build the message and send it
DoCall ==
    /\ dpc = "call"
    /\ upcalls' = Append(upcalls, WRPMessage(disp, dreq, disp.services[di]))
    /\ dpc' = "wait"
    /\ UNCHANGED <<disp, http, wc, hook, dreq, di, attempts, lastErr, dresp, replies>>
    /\ UNCHANGED <<busVars, sessVars>>

\* Client.Do returns: the rest of the loop iteration
DoReply(R) ==
    /\ dpc = "wait"
    /\ \E reply \in R :
         LET svc  == disp.services[di]
             atts == Append(attempts, [service |-> svc, status |-> "transport_error"])
             last == AttemptError(svc, Dest(disp, svc), reply.err)
         IN  /\ replies' = Append(replies, reply)
             /\ IF Continues(reply)
                THEN IF disp.kind = "single"
                     THEN /\ dpc' = "done" /\ di' = di
                          /\ dresp' = SingleTransportError(disp, dreq, reply.err)
                          /\ UNCHANGED <<attempts, lastErr>>
                     ELSE /\ attempts' = atts
                          /\ lastErr' = last
                          /\ IF di < Len(disp.services)
                             THEN dpc' = "call" /\ di' = di + 1 /\ dresp' = dresp
                             ELSE /\ dpc' = "done" /\ di' = di
                                  /\ dresp' = Exhausted(dreq, atts, last)
                ELSE /\ dpc' = "done" /\ di' = di
                     /\ dresp' = Unwrap(dreq, reply.payload)
                     /\ UNCHANGED <<attempts, lastErr>>
    /\ UNCHANGED <<disp, http, wc, hook, dreq, upcalls>>
    /\ UNCHANGED <<busVars, sessVars>>


\* Handle has returned: its local variables are gone
HandleExit ==
    /\ dpc' = "idle"
    /\ dreq' = Request("", "")
    /\ di' = 0
    /\ attempts' = <<>>
    /\ lastErr' = ""
    /\ dresp' = NilResponse
    /\ upcalls' = <<>>
    /\ replies' = <<>>
    /\ UNCHANGED <<disp, http, wc, hook>>

-----------------------------------------------------------------------------
(* The event bus: events.Bus. Bus.mu is a sync.RWMutex; Subscribe and       *)
(* cancel hold it exclusively for their whole body, Publish holds it shared *)
(* while it iterates over the table.                                        *)

Event(device, service, name, payload) ==
    [device |-> device, service |-> service, name |-> name, payload |-> payload]

NoEvent == Event("", "", "", "")

Publishers == 1..MaxPublishers

\* the publishers inside Publish, holding the read lock
Readers == {p \in Publishers : pubs[p].pc = "send"}

\* a write lock that does not wait for the readers
CanLockAlways == TRUE

\* b.mu.Lock() can be taken: nobody holds the read lock (the write lock is
\* held only within one step)
CanLock == Readers = {}

\* make(chan Event, buffer); hist keeps every event ever enqueued, in order
MakeChan(buffer) == [buf |-> <<>>, cap |-> buffer, closes |-> 0, hist |-> <<>>]

\* Bus.Subscribe: a new id, a new channel, recorded in the table
Subscribe(buffer) ==
    /\ CanLock
    /\ chans' = chans @@ (next :> MakeChan(buffer))
    /\ subs' = subs \cup {next}
    /\ next' = next + 1

\* a cancel that finds no subscriber
CancelFindsNever(id) == FALSE

\* a cancel that does not look the id up in the table
CancelFindsAlways(id) == TRUE

\* if sc, ok := b.subs[id]; ok
CancelFinds(id) == id \in subs

\* the cancel function returned by Subscribe for id
Cancel(id) ==
    /\ CanLock
    /\ IF CancelFinds(id)
       THEN /\ subs' = subs \ {id}
            /\ chans' = [chans EXCEPT ![id].closes = @ + 1]
            /\ faults' = IF chans[id].closes > 0
                         THEN faults \cup {"close of closed channel"}
                         ELSE faults
       ELSE UNCHANGED <<subs, chans, faults>>
    /\ cancelled' = cancelled \cup {id}
    /\ UNCHANGED next

\* a receive that leaves the event in the channel
ReceiveKeeps(buf) == buf

\* ev := <-ch: the channel after the receive
Receive(buf) == Tail(buf)

\* case ch <- e: the send of the select can proceed
CanSend(ch) == Len(ch.buf) < ch.cap

\* b.mu.RLock() of Publish; range b.subs then visits the ids of the table
PublishTargets == subs

\* a Publish that gives up at the first full queue
PublishRestStopsWhenFull(todo, id, sent) == IF sent THEN todo \ {id} ELSE {}

\* does Publish go on with the remaining subscribers after this one?
PublishRest(todo, id, sent) == todo \ {id}

\* Publish takes the read lock
PubLock(p) ==
    /\ pubs[p].pc = "rlock"
    /\ pubs' = [pubs EXCEPT ![p].pc = "send", ![p].todo = PublishTargets,
                            ![p].pre = cancelled, ![p].log = {}]
    /\ UNCHANGED <<subs, chans, next, cancelled, cancels, posts, faults>>

\* the select of Publish has a default case: it never waits for the channel
SelectProceeds(ch) == TRUE

\* one iteration of range b.subs: the select with its default
PubSend(p) ==
    /\ pubs[p].pc = "send"
    /\ \E id \in pubs[p].todo :
         LET ch   == chans[id]
             sent == CanSend(ch) /\ ch.closes = 0
         IN  /\ SelectProceeds(ch)
             /\ chans' = IF sent
                         THEN [chans EXCEPT ![id].buf = Append(@, pubs[p].ev),
                                            ![id].hist = Append(@, pubs[p].ev)]
                         ELSE chans
             /\ faults' = faults
                            \cup (IF ch.closes > 0 THEN {"send on closed channel"} ELSE {})
                            \cup (IF sent /\ id \in pubs[p].pre
                                  THEN {"enqueue after cancel"} ELSE {})
             /\ pubs' = [pubs EXCEPT
                           ![p].todo = PublishRest(@, id, sent),
                           ![p].log = @ \cup {[id |-> id, len |-> Len(ch.buf),
                                               cap |-> ch.cap, sent |-> sent]}]
    /\ UNCHANGED <<subs, next, cancelled, cancels, posts>>


-----------------------------------------------------------------------------
(* Webhook ingestion: webhook.Handler. A request is modelled by its method, *)
(* whether its Content-Type contains "msgpack", its headers, and its body:  *)
(* the bytes (a label), whether they decode as a WRP message and as a JSON  *)
(* IncomingEvent, and what the decoders find. A WRP source or destination   *)
(* is given as strings.Split(s, "/") returns it, the destination after      *)
(* strings.TrimPrefix(dest, "event:").                                      *)

RECURSIVE Join(_, _)
\* strings.Join(parts, sep)
Join(parts, sep) ==
    IF Len(parts) = 0 THEN ""
    ELSE IF Len(parts) = 1 THEN parts[1]
    ELSE parts[1] \o sep \o Join(Tail(parts), sep)

\* A string whose prefix or separators matter (the source and destination of
\* a WRP message, a path segment, DEST_PREFIX) is a sequence of tokens, none
\* of which is a prefix of another; Text gives the Go string.
Text(str) == Join(str, "")

\* strings.HasPrefix
HasPrefix(str, prefix) ==
    Len(str) >= Len(prefix) /\ SubSeq(str, 1, Len(prefix)) = prefix

\* a trim that leaves the string as it is
TrimPrefixKeeps(str, prefix) == str

\* strings.TrimPrefix: one leading occurrence of the prefix is removed
TrimPrefix(str, prefix) ==
    IF HasPrefix(str, prefix) THEN SubSeq(str, Len(prefix) + 1, Len(str)) ELSE str

\* strings.TrimSpace on a header value or an item of DEST_SERVICE_FALLBACKS
TrimSpace(p) ==
    CASE p = " legacy " -> "legacy"
      [] p = " mac:dev1 " -> "mac:dev1"
      [] OTHER -> p

RECURSIVE Split(_, _)
\* strings.Split(str, sep): never an empty slice, "" gives [""]
Split(str, sep) ==
    LET at == {i \in 1..Len(str) : str[i] = sep}
    IN  IF at = {} THEN <<str>>
        ELSE LET i == CHOOSE k \in at : \A j \in at : k <= j
             IN  <<SubSeq(str, 1, i - 1)>> \o Split(SubSeq(str, i + 1, Len(str)), sep)

extractDeviceFromSource(source) ==
    IF source = <<>> THEN ""
    ELSE LET parts == Split(source, "/")
         IN  IF Len(parts) > 0 THEN Text(parts[1]) ELSE Text(source)

extractServiceFromSource(source) ==
    LET parts == Split(source, "/")
    IN  IF Len(parts) > 1 THEN Text(parts[2]) ELSE ""

extractEventFromDestination(dest) ==
    IF dest = <<>> THEN ""
    ELSE LET parts == Split(TrimPrefix(dest, <<"event:">>), "/")
         IN  IF Len(parts) > 1
             THEN Join([i \in 1..(Len(parts) - 1) |-> Text(parts[i + 1])], ".")
             ELSE Text(parts[1])

\* the binary-framed WRP path is taken
IsWRP(req) == req.msgpack /\ req.body.bytes # "" /\ req.body.wrpOK

\* a JSON envelope path that asks for the device only
IsJSONEventDeviceOnly(req) == req.body.jsonOK /\ req.body.device # ""

\* the JSON envelope path is taken
IsJSONEvent(req) == req.body.jsonOK /\ req.body.device # "" /\ req.body.name # ""

\* the event a POST publishes
HandlerEvent(req) ==
    IF IsWRP(req)
    THEN LET service   == extractServiceFromSource(req.body.source)
             eventName == extractEventFromDestination(req.body.dest)
         IN  Event(extractDeviceFromSource(req.body.source),
                   IF service = "" THEN "BlizzardRDK" ELSE service,
                   IF eventName = "" THEN "Unknown" ELSE eventName,
                   req.body.wpayload)
    ELSE IF IsJSONEvent(req)
    THEN Event(req.body.device, req.body.service, req.body.name, req.body.jpayload)
    ELSE Event(TrimSpace(IF req.hdr.xmidt # "" THEN req.hdr.xmidt ELSE req.hdr.devid),
               IF req.hdr.service = "" THEN "BlizzardRDK" ELSE req.hdr.service,
               IF req.hdr.name = "" THEN "Unknown" ELSE req.hdr.name,
               req.body.bytes)

NoHeaders == [xmidt |-> "", devid |-> "", name |-> "", service |-> ""]

\* readOK: io.ReadAll returned the body without error
Body(bytes) ==
    [bytes |-> bytes, readOK |-> TRUE, wrpOK |-> FALSE, source |-> <<>>, dest |-> <<>>, wpayload |-> "",
     jsonOK |-> FALSE, device |-> "", service |-> "", name |-> "", jpayload |-> ""]

\* the bodies of the k-th request: each carries a payload of its own
PayloadNames == <<"p1", "p2", "p3", "p4", "p5", "p6">>

\* the webhook requests the bus model delivers as its k-th: a GET, a POST
\* whose body cannot be read, and the same device event as a WRP delivery,
\* as a JSON envelope and as a raw body with headers
WebhookRequests(k) ==
    {[method |-> "GET", msgpack |-> FALSE, hdr |-> NoHeaders, body |-> Body("")],
     [method |-> "POST", msgpack |-> FALSE, hdr |-> NoHeaders,
      body |-> [Body("") EXCEPT !.readOK = FALSE]],
     [method |-> "POST", msgpack |-> TRUE, hdr |-> NoHeaders,
      body |-> [Body("wrp") EXCEPT !.wrpOK = TRUE,
                                   !.source = <<"mac:dev1", "/", "BlizzardRDK">>,
                                   !.dest = <<"event:", "Blizzard", "/", "Time", "/",
                                              "TimerElapsed">>,
                                   !.wpayload = PayloadNames[k]]],
     [method |-> "POST", msgpack |-> FALSE, hdr |-> NoHeaders,
      body |-> [Body("json") EXCEPT !.jsonOK = TRUE, !.device = "mac:dev1",
                                    !.service = "BlizzardRDK",
                                    !.name = "Time.TimerElapsed",
                                    !.jpayload = PayloadNames[k]]],
     [method |-> "POST", msgpack |-> FALSE,
      hdr |-> [NoHeaders EXCEPT !.xmidt = "mac:dev1", !.name = "Time.TimerElapsed"],
      body |-> Body(PayloadNames[k])]}

\* the webhook requests delivered while the session runs: a JSON envelope
\* that names no service
SessionWebhookRequests(k) ==
    {[method |-> "POST", msgpack |-> FALSE, hdr |-> NoHeaders,
      body |-> [Body("json") EXCEPT !.jsonOK = TRUE, !.device = "mac:dev1",
                                    !.name = "heartbeat",
                                    !.jpayload = PayloadNames[k]]]}

\* a handler goroutine: method and status are those of its latest request
IdlePublisher ==
    [pc |-> "idle", method |-> "", ev |-> NoEvent, todo |-> {}, pre |-> {}, log |-> {},
     status |-> 0]

\* a handler that serves every method as it serves POST
WebhookPostAnyMethod(p, room, reqs) ==
    /\ pubs[p].pc = "idle"
    /\ room
    /\ posts' = posts + 1
    /\ \E req \in reqs :
         IF ~req.body.readOK
         THEN pubs' = [pubs EXCEPT ![p] = [IdlePublisher EXCEPT
                                             !.method = req.method, !.status = 400]]
         ELSE pubs' = [pubs EXCEPT ![p] = [IdlePublisher EXCEPT
                                             !.method = req.method, !.pc = "rlock",
                                             !.ev = HandlerEvent(req)]]
    /\ UNCHANGED <<subs, chans, next, cancelled, cancels, faults>>

\* a webhook request arrives: the method check, then the parse paths up to
\* the call of bus.Publish
WebhookPost(p, room, reqs) ==
    /\ pubs[p].pc = "idle"
    /\ room
    /\ posts' = posts + 1
    /\ \E req \in reqs :
         IF req.method # "POST"
         THEN pubs' = [pubs EXCEPT ![p] = [IdlePublisher EXCEPT
                                             !.method = req.method, !.status = 405]]
         ELSE IF ~req.body.readOK
         THEN pubs' = [pubs EXCEPT ![p] = [IdlePublisher EXCEPT
                                             !.method = req.method, !.status = 400]]
         ELSE pubs' = [pubs EXCEPT ![p] = [IdlePublisher EXCEPT
                                             !.method = req.method, !.pc = "rlock",
                                             !.ev = HandlerEvent(req)]]
    /\ UNCHANGED <<subs, chans, next, cancelled, cancels, faults>>

\* Publish returns (the read lock is released) and the handler answers 202
PubDone(p) ==
    /\ pubs[p].pc = "send"
    /\ pubs[p].todo = {}
    /\ pubs' = [pubs EXCEPT ![p] = [IdlePublisher EXCEPT
                                        !.method = pubs[p].method, !.status = 202]]
    /\ UNCHANGED <<subs, chans, next, cancelled, cancels, posts, faults>>


-----------------------------------------------------------------------------
(* Frames. An inbound frame is modelled by its message type and by what     *)
(* json.Unmarshal finds in it; an outbound frame by the JSON object that    *)
(* json.Marshal makes of the value written.                                 *)

Frame(mt, json, jsonrpc, id, method) ==
    [mt |-> mt, json |-> json, jsonrpc |-> jsonrpc, id |-> id, method |-> method]

\* the frames a client sends: valid requests, bytes that are not JSON, a
\* wrong and a missing version tag, a missing method, a frame that is
\* neither text nor binary
Frames ==
    {Frame(mt, TRUE, "2.0", id, "Device.Ping") : mt \in {"text", "binary"}, id \in Ids}
    \cup {Frame("text", FALSE, "", "", ""),
          Frame("text", TRUE, "1.0", "1", "Device.Ping"),
          Frame("text", TRUE, "", "1", "Device.Ping"),
          Frame("text", TRUE, "2.0", "1", ""),
          Frame("other", FALSE, "", "", "")}

\* a ParseRequest that does not look at the method
ParseErrorAnyMethod(f) ==
    IF ~f.json THEN "invalid character"
    ELSE IF f.jsonrpc # "2.0" THEN "unsupported jsonrpc version"
    ELSE ""

\* rpc.ParseRequest: "" when the frame is accepted, else the error message
ParseError(f) ==
    IF ~f.json THEN "invalid character"
    ELSE IF f.jsonrpc # "2.0" THEN "unsupported jsonrpc version"
    ELSE IF f.method = "" THEN "method required"
    ELSE ""

ParseRequest(f) == Request(f.id, f.method)

NoParams == [device |-> "", service |-> "", event |-> "", payload |-> "", correlationId |-> ""]

\* json.Marshal of a Response: id, result and error are omitempty
ResponseFrame(resp) ==
    [kind |-> "response", jsonrpc |-> resp.jsonrpc, hasId |-> resp.id # "", id |-> resp.id,
     method |-> "", hasResult |-> resp.result.t # "none", result |-> resp.result,
     hasError |-> resp.error.set, error |-> resp.error, params |-> NoParams]

\* a notification encoded with an id member, as a request would be
NotificationFrameWithId(method, params) ==
    [kind |-> "notification", jsonrpc |-> "2.0", hasId |-> TRUE, id |-> "null",
     method |-> method, hasResult |-> FALSE, result |-> NoResult,
     hasError |-> FALSE, error |-> NoError, params |-> params]

\* json.Marshal of a Notification: it has no id member
NotificationFrame(method, params) ==
    [kind |-> "notification", jsonrpc |-> "2.0", hasId |-> FALSE, id |-> "",
     method |-> method, hasResult |-> FALSE, result |-> NoResult,
     hasError |-> FALSE, error |-> NoError, params |-> params]

\* a websocket ping message
PingFrame ==
    [kind |-> "ping", jsonrpc |-> "", hasId |-> FALSE, id |-> "", method |-> "",
     hasResult |-> FALSE, result |-> NoResult, hasError |-> FALSE, error |-> NoError,
     params |-> NoParams]

\* the text message without payload that conn.WriteJSON leaves on the socket
\* when the encoder fails: the message writer is closed after the failed Encode
EmptyFrame == [PingFrame EXCEPT !.kind = "empty"]

\* no frame: the reader has nothing to write
NoFrame == [PingFrame EXCEPT !.kind = "none"]

\* json.Marshal succeeds on a frame: a json.RawMessage result must hold valid
\* JSON (a nil RawMessage is written as null)
Encodable(frame) ==
    frame.result.t # "raw" \/ frame.result.form \in {"object", "value", "nil"}

\* a method built from the fields of the event as they are
buildEventMethodAsIs(ev) == "rpc.Event." \o ev.service \o "." \o ev.name

buildEventMethod(ev) ==
    "rpc.Event." \o (IF ev.service = "" THEN "BlizzardRDK" ELSE ev.service)
                 \o "." \o (IF ev.name = "" THEN "Unknown" ELSE ev.name)

\* the Notification the forwarder writes for an event
EventNotification(ev) ==
    NotificationFrame(buildEventMethod(ev),
                      [NoParams EXCEPT !.device = ev.device, !.service = ev.service,
                                       !.event = ev.name, !.payload = ev.payload])

\* the Gateway.Ack notification for a request
AckNotification(r) ==
    NotificationFrame("Gateway.Ack", [NoParams EXCEPT !.correlationId = r.id])

\* writeError(nil, -32600, msg)
ErrorResponse(id, code, msg) == Response(id, NoResult, Error(code, msg, <<>>, ""))

\* the values of GATEWAY_ACK the model runs with, each with what
\* strings.ToLower(strings.TrimSpace(v)) makes of it: unset, recognized, other
AckValues ==
    {[raw |-> "", norm |-> ""], [raw |-> " TRUE ", norm |-> "true"],
     [raw |-> "0", norm |-> "0"]}

\* a flag that is on unless it is set to something else
gatewayAckEnabledByDefault(v) ==
    v.raw = "" \/ v.norm \in {"1", "true", "yes", "on", "enable", "enabled"}

gatewayAckEnabled(v) ==
    v.raw # "" /\ v.norm \in {"1", "true", "yes", "on", "enable", "enabled"}


-----------------------------------------------------------------------------
(* The session: client.run, its ping goroutine and its event forwarder.     *)
(* sess holds the arguments and local variables of run:                     *)
(*   hasBus  bus != nil           ack    the value of GATEWAY_ACK           *)
(*   subId   the subscription id  req    the request being served           *)
(*   out     the frame the reader is about to write                         *)
(*   fev     the event the forwarder received                               *)
(*   closed  conn.Close() was called                                        *)
(*   werr    a write on the socket failed (the connection keeps the error)  *)
(*   valid   the numbers of the frames that ParseRequest accepted           *)

Tasks == {"reader", "ping", "fwd"}

\* the session may take one more input
SessionRoom == nread + posts + npings < MaxInputs

\* a lock that is taken without waiting for its holder
LockWithoutWaiting(task) == mu' = task

\* c.mu.Lock() by a task
Lock(task) == mu = "" /\ mu' = task

\* an unlock that leaves the mutex with its holder
UnlockKeeps == mu' = mu

\* c.mu.Unlock()
Unlock == mu' = ""

\* the outcomes of a write of the frame on the socket: the frames that reach
\* the wire, and whether the write returned an error. A closed or failed
\* connection fails every write; a value that does not encode leaves an empty
\* text message; any other write succeeds or fails on the network.
WriteOutcomes(frame) ==
    IF sess.closed \/ sess.werr
    THEN {[sent |-> <<>>, err |-> TRUE, net |-> FALSE]}
    ELSE IF ~Encodable(frame)
    THEN {[sent |-> <<EmptyFrame>>, err |-> TRUE, net |-> FALSE]}
    ELSE {[sent |-> <<frame>>, err |-> FALSE, net |-> FALSE],
          [sent |-> <<>>, err |-> TRUE, net |-> TRUE]}

\* what a write leaves behind: the wire, and the connection's write error;
\* s is the session with the writer's local variables as they are after it
Written(o, tag, s) ==
    /\ wire' = wire \o [i \in 1..Len(o.sent) |-> [frame |-> o.sent[i], n |-> tag]]
    /\ sess' = [s EXCEPT !.werr = @ \/ o.net]

\* run up to the read loop: Subscribe when there is a bus, then the two
\* goroutines are started
RunStart ==
    /\ rpc = "start"
    /\ IF sess.hasBus
       THEN /\ Subscribe(64)
            /\ sess' = [sess EXCEPT !.subId = next]
       ELSE UNCHANGED <<subs, chans, next, sess>>
    /\ rpc' = "read"
    /\ ppc' = "select"
    /\ fpc' = "select"
    /\ UNCHANGED <<pubs, cancelled, cancels, posts, faults>>
    /\ UNCHANGED <<mu, done, wire, nread, npings>>
    /\ UNCHANGED dispVars

\* c.conn.ReadMessage() fails: close(done) and return
ReadError ==
    /\ rpc = "read"
    /\ done' = done + 1
    /\ rpc' = "cancel"
    /\ UNCHANGED <<sess, ppc, fpc, mu, wire, nread, npings>>
    /\ UNCHANGED <<dispVars, busVars>>

\* c.conn.ReadMessage() returns a frame: skip it, report a parse error, or
\* call the dispatcher
ReadFrame ==
    /\ rpc = "read"
    /\ SessionRoom
    /\ nread' = nread + 1
    /\ \E f \in Frames :
         IF f.mt \notin {"text", "binary"}
         THEN rpc' = "read" /\ UNCHANGED <<sess, dispVars>>
         ELSE IF ParseError(f) # ""
         THEN /\ rpc' = "lock"
              /\ sess' = [sess EXCEPT
                            !.out = ResponseFrame(ErrorResponse("", -32600, ParseError(f))),
                            !.after = "read"]
              /\ UNCHANGED dispVars
         ELSE /\ rpc' = "handle"
              /\ sess' = [sess EXCEPT !.req = ParseRequest(f),
                                       !.valid = @ \cup {nread + 1}]
              /\ dpc = "idle"
              /\ HandleEnter(ParseRequest(f))
    /\ UNCHANGED <<ppc, fpc, mu, done, wire, npings>>
    /\ UNCHANGED busVars

\* where the reader goes after the response: the ack, or the next read
AfterResponse == IF gatewayAckEnabled(sess.ack) THEN "ack" ELSE "read"

\* d.Handle(req) returns
HandleReturn ==
    /\ rpc = "handle"
    /\ dpc = "done"
    /\ HandleExit
    /\ IF dresp.set
       THEN /\ rpc' = "lock"
            /\ sess' = [sess EXCEPT !.out = ResponseFrame(dresp), !.after = AfterResponse]
       ELSE /\ rpc' = AfterResponse
            /\ UNCHANGED sess
    /\ UNCHANGED <<ppc, fpc, mu, done, wire, nread, npings>>
    /\ UNCHANGED busVars

\* the reader builds the Gateway.Ack notification and calls writeJSON
ReaderAck ==
    /\ rpc = "ack"
    /\ rpc' = "lock"
    /\ sess' = [sess EXCEPT !.out = AckNotification(sess.req), !.after = "read"]
    /\ UNCHANGED <<ppc, fpc, mu, done, wire, nread, npings>>
    /\ UNCHANGED <<dispVars, busVars>>

\* a writeJSON that is left to a goroutine: the reader goes back to its loop
ReaderLockDetached ==
    /\ rpc = "lock"
    /\ rpc' = "read"
    /\ UNCHANGED <<sess, mu, ppc, fpc, done, wire, nread, npings>>
    /\ UNCHANGED <<dispVars, busVars>>

\* writeJSON by the reader: c.mu.Lock()
ReaderLock ==
    /\ rpc = "lock"
    /\ Lock("reader")
    /\ rpc' = "write"
    /\ UNCHANGED <<sess, ppc, fpc, done, wire, nread, npings>>
    /\ UNCHANGED <<dispVars, busVars>>

\* a reader that gives up the session when the frame it wrote reports an error
ReaderWriteStopsOnError ==
    /\ rpc = "write"
    /\ \E o \in WriteOutcomes(sess.out) :
         Written(o, nread, IF sess.after = "read"
                           THEN [sess EXCEPT !.out = NoFrame, !.req = Request("", "")]
                           ELSE [sess EXCEPT !.out = NoFrame])
    /\ Unlock
    /\ rpc' = IF sess.out.hasError THEN "cancel" ELSE sess.after
    /\ done' = IF sess.out.hasError THEN done + 1 ELSE done
    /\ UNCHANGED <<ppc, fpc, nread, npings>>
    /\ UNCHANGED <<dispVars, busVars>>

\* a reader that leaves writeJSON with the mutex still held
ReaderWriteKeepsLock ==
    /\ rpc = "write"
    /\ \E o \in WriteOutcomes(sess.out) :
         Written(o, nread, IF sess.after = "read"
                           THEN [sess EXCEPT !.out = NoFrame, !.req = Request("", "")]
                           ELSE [sess EXCEPT !.out = NoFrame])
    /\ mu' = mu
    /\ rpc' = sess.after
    /\ UNCHANGED <<ppc, fpc, done, nread, npings>>
    /\ UNCHANGED <<dispVars, busVars>>

\* writeJSON by the reader: the write, then the deferred Unlock
ReaderWrite ==
    /\ rpc = "write"
    /\ \E o \in WriteOutcomes(sess.out) :
         Written(o, nread, IF sess.after = "read"
                           THEN [sess EXCEPT !.out = NoFrame, !.req = Request("", "")]
                           ELSE [sess EXCEPT !.out = NoFrame])
    /\ Unlock
    /\ rpc' = sess.after
    /\ UNCHANGED <<ppc, fpc, done, nread, npings>>
    /\ UNCHANGED <<dispVars, busVars>>

\* the deferred cancel() of run
RunCancel ==
    /\ rpc = "cancel"
    /\ IF sess.hasBus
       THEN Cancel(sess.subId)
       ELSE UNCHANGED <<subs, chans, next, cancelled, faults>>
    /\ rpc' = "close"
    /\ UNCHANGED <<pubs, cancels, posts>>
    /\ UNCHANGED <<sess, ppc, fpc, mu, done, wire, nread, npings>>
    /\ UNCHANGED dispVars

\* the deferred c.conn.Close() of run
RunClose ==
    /\ rpc = "close"
    /\ sess' = [sess EXCEPT !.closed = TRUE]
    /\ rpc' = "done"
    /\ UNCHANGED <<ppc, fpc, mu, done, wire, nread, npings>>
    /\ UNCHANGED <<dispVars, busVars>>


\* the ping goroutine: case <-ticker.C
PingTick ==
    /\ ppc = "select"
    /\ SessionRoom
    /\ npings' = npings + 1
    /\ ppc' = "lock"
    /\ UNCHANGED <<sess, rpc, fpc, mu, done, wire, nread>>
    /\ UNCHANGED <<dispVars, busVars>>

\* the ping goroutine: case <-done
PingQuit ==
    /\ ppc = "select"
    /\ done > 0
    /\ ppc' = "done"
    /\ UNCHANGED <<sess, rpc, fpc, mu, done, wire, nread, npings>>
    /\ UNCHANGED <<dispVars, busVars>>

\* the ping goroutine: c.mu.Lock()
PingLock ==
    /\ ppc = "lock"
    /\ Lock("ping")
    /\ ppc' = "write"
    /\ UNCHANGED <<sess, rpc, fpc, done, wire, nread, npings>>
    /\ UNCHANGED <<dispVars, busVars>>

\* a ping emitter that returns from a failed write with the mutex held
PingWriteReturnsLocked ==
    /\ ppc = "write"
    /\ \E o \in WriteOutcomes(PingFrame) :
         /\ Written([o EXCEPT !.sent = <<>>], npings, sess)
         /\ ppc' = IF o.err THEN "done" ELSE "select"
         /\ IF o.err THEN mu' = mu ELSE Unlock
    /\ UNCHANGED <<rpc, fpc, done, nread, npings>>
    /\ UNCHANGED <<dispVars, busVars>>

\* the ping goroutine: WriteMessage(PingMessage), Unlock, and return on error
\* (wire keeps the data frames only: a ping is a control message)
PingWrite ==
    /\ ppc = "write"
    /\ \E o \in WriteOutcomes(PingFrame) :
         /\ Written([o EXCEPT !.sent = <<>>], npings, sess)
         /\ ppc' = IF o.err THEN "done" ELSE "select"
    /\ Unlock
    /\ UNCHANGED <<rpc, fpc, done, nread, npings>>
    /\ UNCHANGED <<dispVars, busVars>>

\* the channel the forwarder selects on (a nil channel without a bus)
EvCh == chans[sess.subId]

\* the forwarder: case ev, ok := <-evCh with an event
FwdRecv ==
    /\ fpc = "select"
    /\ sess.hasBus
    /\ EvCh.buf # <<>>
    /\ chans' = [chans EXCEPT ![sess.subId].buf = Receive(@)]
    /\ sess' = [sess EXCEPT !.fev = Head(EvCh.buf)]
    /\ fpc' = "lock"
    /\ UNCHANGED <<subs, next, pubs, cancelled, cancels, posts, faults>>
    /\ UNCHANGED <<rpc, ppc, mu, done, wire, nread, npings>>
    /\ UNCHANGED dispVars

\* the forwarder: case ev, ok := <-evCh on the closed, drained channel
FwdClosed ==
    /\ fpc = "select"
    /\ sess.hasBus
    /\ EvCh.buf = <<>>
    /\ EvCh.closes > 0
    /\ fpc' = "done"
    /\ UNCHANGED <<sess, rpc, ppc, mu, done, wire, nread, npings>>
    /\ UNCHANGED <<dispVars, busVars>>

\* the forwarder: case <-done
FwdQuit ==
    /\ fpc = "select"
    /\ done > 0
    /\ fpc' = "done"
    /\ UNCHANGED <<sess, rpc, ppc, mu, done, wire, nread, npings>>
    /\ UNCHANGED <<dispVars, busVars>>

\* the forwarder, writeJSON: c.mu.Lock()
FwdLock ==
    /\ fpc = "lock"
    /\ Lock("fwd")
    /\ fpc' = "write"
    /\ UNCHANGED <<sess, rpc, ppc, done, wire, nread, npings>>
    /\ UNCHANGED <<dispVars, busVars>>

\* the forwarder, writeJSON: the write, then the deferred Unlock
FwdWrite ==
    /\ fpc = "write"
    /\ \E o \in WriteOutcomes(EventNotification(sess.fev)) :
         Written(o, 0, [sess EXCEPT !.fev = NoEvent])
    /\ Unlock
    /\ fpc' = "select"
    /\ UNCHANGED <<rpc, ppc, done, nread, npings>>
    /\ UNCHANGED <<dispVars, busVars>>

-----------------------------------------------------------------------------
(* Initial states. *)

\* no upgrade request is being served
NoUpgrade ==
    [pc |-> "off", base |-> EchoDispatcher, segs |-> <<>>,
     env |-> [DEST_PREFIX |-> <<>>, CANONICAL_SERVICE_NAME |-> "",
              DEST_SERVICE_FALLBACKS |-> <<>>]]

\* the headers of an HTTP request that has not been built
NoHeader == [ContentType |-> "", hasAuthorization |-> FALSE, Authorization |-> <<>>]

\* a WRPClient whose Do is not being looked at: no credential configured
\* the sessions whose dispatchers call Do on the one shared client
Callers == {1, 2}

IdleClient ==
    [pc |-> [c \in Callers |-> "off"], Client |-> FALSE, Authorization |-> <<>>,
     Header |-> [c \in Callers |-> NoHeader]]

DispIdle ==
    /\ dpc = "idle"
    /\ dreq = Request("", "")
    /\ di = 0
    /\ attempts = <<>>
    /\ lastErr = ""
    /\ dresp = NilResponse
    /\ upcalls = <<>>
    /\ replies = <<>>

\* NewBus()
BusInit ==
    /\ subs = {}
    /\ chans = <<>>
    /\ next = 0
    /\ pubs = [p \in Publishers |-> IdlePublisher]
    /\ cancelled = {}
    /\ cancels = 0
    /\ posts = 0
    /\ faults = {}

\* the client made by ServeHTTP, before run starts
NewSession(hasBus, ack) ==
    [hasBus |-> hasBus, ack |-> ack, subId |-> 0, req |-> Request("", ""),
     out |-> NoFrame, after |-> "", fev |-> NoEvent, closed |-> FALSE, werr |-> FALSE,
     valid |-> {}]

SessIdle ==
    /\ sess = NewSession(FALSE, [raw |-> "", norm |-> ""])
    /\ rpc = "off"
    /\ ppc = "off"
    /\ fpc = "off"
    /\ mu = ""
    /\ done = 0
    /\ wire = <<>>
    /\ nread = 0
    /\ npings = 0

\* the values of GATEWAY_ACK a session runs with: unset, and a recognized one
SessionAckValues == {a \in AckValues : a.raw \in {"", " TRUE "}}

\* the dispatchers a session runs with
SessionDispatchers ==
    {EchoDispatcher,
     WRPDispatcher("blizzard/gateway", "mac:dev1/BlizzardRDK", "BlizzardRDK"),
     MultiServiceDispatcher(TRUE, "blizzard/gateway", "dev1", "mac:",
                            SubSeq(ServiceNames, 1, MaxServices)),
     MultiServiceDispatcher(FALSE, "blizzard/gateway", "dev1", "mac:",
                            SubSeq(ServiceNames, 1, 1))}

Init ==
    /\ disp \in SessionDispatchers
    /\ http = NoUpgrade
    /\ wc = IdleClient
    /\ hook = <<>>
    /\ DispIdle
    /\ BusInit
    /\ sess \in {NewSession(b, a) : b \in BOOLEAN, a \in SessionAckValues}
    /\ rpc = "start"
    /\ ppc = "off"
    /\ fpc = "off"
    /\ mu = ""
    /\ done = 0
    /\ wire = <<>>
    /\ nread = 0
    /\ npings = 0

Next ==
    \/ RunStart
    \/ ReadError
    \/ ReadFrame
    \/ DoCall
    \/ DoReply(SessionReplies(dreq))
    \/ HandleReturn
    \/ ReaderAck
    \/ ReaderLock
    \/ ReaderWrite
    \/ RunCancel
    \/ RunClose
    \/ PingTick
    \/ PingQuit
    \/ PingLock
    \/ PingWrite
    \/ FwdRecv
    \/ FwdClosed
    \/ FwdQuit
    \/ FwdLock
    \/ FwdWrite
    \/ WebhookPost(1, SessionRoom, SessionWebhookRequests(posts + 1))
          /\ UNCHANGED <<dispVars, sessVars>>
    \/ PubLock(1) /\ UNCHANGED <<dispVars, sessVars>>
    \/ PubSend(1) /\ UNCHANGED <<dispVars, sessVars>>
    \/ PubDone(1) /\ UNCHANGED <<dispVars, sessVars>>

Spec == Init /\ [][Next]_vars

\* the goroutines of a session are scheduled: a task that can receive from
\* the channel, take the free mutex or finish its write does so
Fairness ==
    /\ WF_vars(FwdRecv)
    /\ WF_vars(FwdLock)
    /\ WF_vars(FwdWrite)
    /\ WF_vars(ReaderWrite)
    /\ WF_vars(PingWrite)

FairSpec == Spec /\ Fairness

\* the goroutines that wait are scheduled too: a task waiting for the free
\* mutex takes it, and a select whose terminator case is ready takes it
\* unless it takes another case
Scheduling ==
    /\ WF_vars(PingLock)
    /\ WF_vars(PingQuit)
    /\ WF_vars(FwdQuit)

TermSpec == Spec /\ Fairness /\ Scheduling


-----------------------------------------------------------------------------
(* SpecDisp: one dispatcher of any kind, called again and again with any    *)
(* request; the upstream answers each call with any reply.                  *)

InitDisp ==
    /\ disp \in Dispatchers
    /\ http = NoUpgrade
    /\ wc = IdleClient
    /\ hook = <<>>
    /\ DispIdle
    /\ BusInit
    /\ SessIdle

\* a caller calls d.Handle(r)
Handle ==
    /\ dpc = "idle"
    /\ \E r \in Requests : HandleEnter(r)
    /\ UNCHANGED <<busVars, sessVars>>

\* Handle returns its response to the caller
Return ==
    /\ dpc = "done"
    /\ HandleExit
    /\ UNCHANGED <<busVars, sessVars>>

NextDisp ==
    \/ Handle
    \/ DoCall
    \/ DoReply(Replies(dreq))
    \/ Return

SpecDisp == InitDisp /\ [][NextDisp]_vars

-----------------------------------------------------------------------------
(* SpecBus: the bus with any subscribers, each holding its cancel handle    *)
(* and receiving from its channel, and the webhook handler serving          *)
(* requests concurrently.                                                   *)

InitBus ==
    /\ disp = EchoDispatcher
    /\ http = NoUpgrade
    /\ wc = IdleClient
    /\ hook = <<>>
    /\ DispIdle
    /\ BusInit
    /\ SessIdle

\* the buffer sizes given to Subscribe
Buffers == {1, 2}

\* the bus may take one more call
BusRoom == next + cancels + posts < MaxBusCalls

\* the handler goroutines are alike: a request is served by the first idle one
FirstIdle(p) == \A q \in Publishers : q < p => pubs[q].pc # "idle"

\* somebody subscribes
BusSubscribe ==
    /\ BusRoom
    /\ \E buffer \in Buffers : Subscribe(buffer)
    /\ UNCHANGED <<pubs, cancelled, cancels, posts, faults>>
    /\ UNCHANGED <<dispVars, sessVars>>

\* a holder of a cancel handle calls it
BusCancel ==
    /\ BusRoom
    /\ cancels' = cancels + 1
    /\ \E id \in 0..(next - 1) : Cancel(id)
    /\ UNCHANGED <<pubs, posts>>
    /\ UNCHANGED <<dispVars, sessVars>>

\* a subscriber receives from its channel
BusReceive ==
    /\ \E id \in 0..(next - 1) :
         /\ chans[id].buf # <<>>
         /\ chans' = [chans EXCEPT ![id].buf = Receive(@)]
    /\ UNCHANGED <<subs, next, pubs, cancelled, cancels, posts, faults>>
    /\ UNCHANGED <<dispVars, sessVars>>

NextBus ==
    \/ BusSubscribe
    \/ BusCancel
    \/ BusReceive
    \/ \E p \in Publishers :
         /\ \/ WebhookPost(p, BusRoom /\ FirstIdle(p), WebhookRequests(posts + 1))
            \/ PubLock(p)
            \/ PubSend(p)
            \/ PubDone(p)
         /\ UNCHANGED <<dispVars, sessVars>>

SpecBus == InitBus /\ [][NextBus]_vars

-----------------------------------------------------------------------------
(* SpecServe: Handler.ServeHTTP chooses the dispatcher of a session from    *)
(* the Handler's dispatcher, the request path and the environment.          *)
(* The strings whose prefixes matter (a path segment, DEST_PREFIX) are      *)
(* sequences of tokens, none of which is a prefix of another; Text gives    *)
(* the Go string.                                                           *)

\* prefix := os.Getenv("DEST_PREFIX"), "mac:" when empty
Prefix(env) == IF env.DEST_PREFIX = <<>> THEN <<"mac:">> ELSE env.DEST_PREFIX

\* canonical := os.Getenv("CANONICAL_SERVICE_NAME"), "BlizzardRDK" when empty
Canonical(env) ==
    IF env.CANONICAL_SERVICE_NAME = "" THEN "BlizzardRDK"
    ELSE env.CANONICAL_SERVICE_NAME

RECURSIVE Fallbacks(_, _, _)
\* the loop over strings.Split(fb, ","): the items appended to parts
Fallbacks(items, canonical, service) ==
    IF items = <<>> THEN <<>>
    ELSE LET item == TrimSpace(Head(items))
         IN  (IF item # "" /\ item # canonical /\ item # service
              THEN <<item>> ELSE <<>>)
             \o Fallbacks(Tail(items), canonical, service)

\* parts: canonical first, then the alias if different, then the fallbacks
Parts(canonical, service, items) ==
    <<canonical>>
    \o (IF service # "" /\ service # canonical THEN <<service>> ELSE <<>>)
    \o Fallbacks(items, canonical, service)

\* the dispatcher ServeHTTP hands to run
Dispatcher(base, segs, env) ==
    IF Len(segs) >= 3 /\ segs[1] = <<"ws">> /\ base.kind = "single"
    THEN LET device == TrimPrefix(segs[2], Prefix(env))
             service == Text(segs[3])
             dcopy == [base EXCEPT
                         !.dest = Text(Prefix(env)) \o Text(device) \o "/" \o Canonical(env),
                         !.service = Canonical(env),
                         !.services = <<Canonical(env)>>]
         IN  IF env.DEST_SERVICE_FALLBACKS # <<>>
             THEN MultiServiceDispatcher(dcopy.hasClient, dcopy.source, Text(device),
                                         Text(Prefix(env)),
                                         Parts(Canonical(env), service,
                                               env.DEST_SERVICE_FALLBACKS))
             ELSE dcopy
    ELSE base

\* the dispatchers a Handler is made with: Echo, the single-service
\* dispatcher of main (no destination yet), and a multi-service dispatcher
BaseDispatchers ==
    {EchoDispatcher,
     WRPDispatcher("blizzard/gateway", "", ""),
     MultiServiceDispatcher(TRUE, "blizzard/gateway", "dev1", "mac:", <<"BlizzardRDK">>)}

\* the device segments of the request paths
DeviceSegments ==
    {<<"dev1">>, <<"mac:", "dev1">>, <<"mac:", "mac:", "dev1">>, <<"uuid:", "dev1">>, <<>>}

\* the service segments of the request paths
ServiceSegments == {<<"BlizzardRDK">>, <<"config">>, <<"legacy">>, <<>>}

\* strings.Split(strings.TrimPrefix(path, "/"), "/")
Paths ==
    {<<<<"ws">>, d, v>> : d \in DeviceSegments, v \in ServiceSegments}
    \cup {<<<<"ws">>, d, <<"config">>, <<"extra">>>> : d \in DeviceSegments}
    \cup {<<<<"ws">>, d>> : d \in DeviceSegments}
    \cup {<<<<"api">>, <<"dev1">>, <<"config">>>>}

\* the environment: unset variables are empty
Environments ==
    [DEST_PREFIX : {<<>>, <<"mac:">>, <<"uuid:">>},
     CANONICAL_SERVICE_NAME : {"", "config"},
     DEST_SERVICE_FALLBACKS : {<<>>, <<"legacy">>, <<"config", " legacy ", "">>,
                               <<"legacy", "spare", "legacy">>}]

InitServe ==
    /\ http \in [pc : {"accept"}, base : BaseDispatchers, segs : Paths, env : Environments]
    /\ disp = http.base
    /\ wc = IdleClient
    /\ hook = <<>>
    /\ DispIdle
    /\ BusInit
    /\ SessIdle

\* a specialization made on the handler's dispatcher itself, not on a copy
BaseAfterAlias(base, session) ==
    IF base.kind = "single" /\ session.kind = "single" THEN session ELSE base

\* dcopy := *base: Dest and ServiceName are assigned to the copy, and
\* h.Dispatcher is what it was
BaseAfterCopy(base, session) == base

\* ServeHTTP: the upgrade fails and nothing is served, or the session's
\* dispatcher is chosen and run is started with it
ServeHTTP ==
    /\ http.pc = "accept"
    /\ \E upgraded \in BOOLEAN :
         IF upgraded
         THEN /\ http' = [http EXCEPT
                            !.pc = "run",
                            !.base = BaseAfterCopy(@, Dispatcher(http.base, http.segs,
                                                                 http.env))]
              /\ disp' = Dispatcher(http.base, http.segs, http.env)
         ELSE /\ http' = [http EXCEPT !.pc = "refused"]
              /\ UNCHANGED disp
    /\ UNCHANGED <<dpc, dreq, di, attempts, lastErr, dresp, upcalls, replies, wc, hook>>
    /\ UNCHANGED <<busVars, sessVars>>

\* the server calls ServeHTTP for the next connection, on any path
Accept ==
    /\ http.pc \in {"run", "refused"}
    /\ \E segs \in Paths : http' = [http EXCEPT !.pc = "accept", !.segs = segs]
    /\ UNCHANGED <<disp, dpc, dreq, di, attempts, lastErr, dresp, upcalls, replies, wc, hook>>
    /\ UNCHANGED <<busVars, sessVars>>

NextServe ==
    \/ ServeHTTP
    \/ Accept

SpecServe == InitServe /\ [][NextServe]_vars

-----------------------------------------------------------------------------
(* SpecClient: WRPClient.Do builds the HTTP request for the upstream.       *)
(* A credential is a sequence of tokens: a space, a scheme word in some     *)
(* case, or a word that is no scheme.                                       *)

MaxTokens == 3

Tokens == {" ", "Basic", "BEARER", "digest", "dXNlcjpwYXNz"}

RECURSIVE StringsUpTo(_)
\* the strings of at most n tokens
StringsUpTo(n) ==
    IF n = 0 THEN {<<>>}
    ELSE StringsUpTo(n - 1)
         \cup {Append(str, t) : str \in {x \in StringsUpTo(n - 1) : Len(x) = n - 1},
                                t \in Tokens}

RECURSIVE TrimLeft(_)
\* the string without its leading spaces
TrimLeft(str) ==
    IF str # <<>> /\ Head(str) = " " THEN TrimLeft(Tail(str)) ELSE str

RECURSIVE TrimRight(_)
\* the string without its trailing spaces
TrimRight(str) ==
    IF str # <<>> /\ str[Len(str)] = " "
    THEN TrimRight(SubSeq(str, 1, Len(str) - 1)) ELSE str

\* strings.TrimSpace(wc.Authorization)
TrimSpaceAuth(str) == TrimRight(TrimLeft(str))

\* a lower-casing that leaves the string as it is
ToLowerKeeps(str) == str

\* strings.ToLower
ToLower(str) ==
    [i \in 1..Len(str) |->
        CASE str[i] = "Basic" -> "basic"
          [] str[i] = "BEARER" -> "bearer"
          [] OTHER -> str[i]]

\* the value of the Authorization header Do sets for a non-empty credential
AuthorizationHeader(credential) ==
    LET auth == TrimSpaceAuth(credential)
        lower == ToLower(auth)
    IN  IF ~(\/ HasPrefix(lower, <<"basic", " ">>)
             \/ HasPrefix(lower, <<"bearer", " ">>)
             \/ HasPrefix(lower, <<"digest", " ">>))
        THEN <<"Basic", " ">> \o auth
        ELSE auth

InitClient ==
    /\ wc \in [pc : {[c \in Callers |-> "check"]}, Client : BOOLEAN,
                Authorization : StringsUpTo(MaxTokens),
                Header : {[c \in Callers |-> NoHeader]}]
    /\ disp = EchoDispatcher
    /\ http = NoUpgrade
    /\ hook = <<>>
    /\ DispIdle
    /\ BusInit
    /\ SessIdle

\* Do, line 30: the test wc.Client == nil, a read of the shared field
DoCheck(c) ==
    /\ wc.pc[c] = "check"
    /\ wc' = [wc EXCEPT !.pc[c] = IF wc.Client THEN "do" ELSE "make"]
    /\ UNCHANGED <<disp, http, hook, dpc, dreq, di, attempts, lastErr, dresp, upcalls,
                   replies>>
    /\ UNCHANGED <<busVars, sessVars>>

\* Do, line 31: wc.Client = &http.Client{...}, a write of the shared field
DoMake(c) ==
    /\ wc.pc[c] = "make"
    /\ wc' = [wc EXCEPT !.pc[c] = "do", !.Client = TRUE]
    /\ UNCHANGED <<disp, http, hook, dpc, dreq, di, attempts, lastErr, dresp, upcalls,
                   replies>>
    /\ UNCHANGED <<busVars, sessVars>>

\* Do from the encoding of the message to wc.Client.Do(req): the request
\* gets its headers, and the shared field is read for the call
DoRequest(c) ==
    /\ wc.pc[c] = "do"
    /\ wc' = [wc EXCEPT
                !.pc[c] = "sent",
                !.Header[c] = [ContentType |-> "application/msgpack",
                               hasAuthorization |-> wc.Authorization # <<>>,
                               Authorization |-> IF wc.Authorization # <<>>
                                                 THEN AuthorizationHeader(wc.Authorization)
                                                 ELSE <<>>]]
    /\ UNCHANGED <<disp, http, hook, dpc, dreq, di, attempts, lastErr, dresp, upcalls,
                   replies>>
    /\ UNCHANGED <<busVars, sessVars>>

NextClient ==
    \E c \in Callers :
        \/ DoCheck(c)
        \/ DoMake(c)
        \/ DoRequest(c)

SpecClient == InitClient /\ [][NextClient]_vars

-----------------------------------------------------------------------------
(* SpecHook: the webhook handler serving deliveries of every shape, one     *)
(* after the other, while a session is subscribed to the bus and its        *)
(* forwarder writes the events to the client.                               *)

\* a binary-framed WRP delivery
WRPDelivery(source, dest, payload) ==
    [method |-> "POST", msgpack |-> TRUE, hdr |-> NoHeaders,
     body |-> [Body("wrp") EXCEPT !.wrpOK = TRUE, !.source = source, !.dest = dest,
                                  !.wpayload = payload]]

\* a JSON body that decodes into IncomingEvent
JSONDelivery(msgpack, hdr, device, service, name, payload) ==
    [method |-> "POST", msgpack |-> msgpack, hdr |-> hdr,
     body |-> [Body("json") EXCEPT !.jsonOK = TRUE, !.device = device,
                                   !.service = service, !.name = name,
                                   !.jpayload = payload]]

\* the sources of the WRP deliveries: no, one, two "/", and a trailing one
Sources ==
    {<<>>, <<"mac:dev1">>, <<"mac:dev1", "/", "config">>,
     <<"mac:dev1", "/", "config", "/", "extra">>, <<"mac:dev1", "/">>}

\* the destinations of the WRP deliveries
Destinations ==
    {<<>>, <<"event:">>, <<"event:", "Event">>, <<"event:", "Service", "/", "Event">>,
     <<"Blizzard", "/", "Time", "/", "TimerElapsed">>, <<"event:", "Service", "/">>}

\* the webhook requests delivered as the k-th: other methods, an unreadable
\* body, WRP deliveries, bodies that fail a parse path, headers
HookRequests(k) ==
    {[method |-> "GET", msgpack |-> FALSE, hdr |-> NoHeaders, body |-> Body("")],
     [method |-> "PUT", msgpack |-> TRUE,
      hdr |-> [NoHeaders EXCEPT !.devid = "devX"], body |-> Body(PayloadNames[k])],
     [method |-> "POST", msgpack |-> FALSE, hdr |-> NoHeaders,
      body |-> [Body("") EXCEPT !.readOK = FALSE]]}
    \cup {WRPDelivery(src, <<"event:", "Service", "/", "Event">>, PayloadNames[k]) :
             src \in Sources}
    \cup {WRPDelivery(<<"mac:dev1", "/", "config">>, dst, PayloadNames[k]) :
             dst \in Destinations}
    \cup {JSONDelivery(TRUE, NoHeaders, "mac:dev1", "config", "heartbeat", PayloadNames[k]),
          JSONDelivery(FALSE, NoHeaders, "mac:dev1", "", "heartbeat", PayloadNames[k]),
          JSONDelivery(FALSE, [NoHeaders EXCEPT !.devid = "devX"], "", "config",
                       "heartbeat", PayloadNames[k]),
          JSONDelivery(FALSE, [NoHeaders EXCEPT !.xmidt = " mac:dev1 ", !.devid = "devX",
                                                !.service = "config"],
                       "mac:dev1", "config", "", PayloadNames[k])}
    \cup {[method |-> "POST", msgpack |-> TRUE,
           hdr |-> [NoHeaders EXCEPT !.devid = "devX", !.name = "heartbeat"],
           body |-> Body("")],
          [method |-> "POST", msgpack |-> TRUE,
           hdr |-> [NoHeaders EXCEPT !.devid = "devX", !.name = "heartbeat"],
           body |-> Body(PayloadNames[k])],
          [method |-> "POST", msgpack |-> FALSE, hdr |-> NoHeaders,
           body |-> Body(PayloadNames[k])]}

\* a session without dispatcher work, subscribed to the bus: run has reached
\* its read loop
InitHook ==
    /\ disp = EchoDispatcher
    /\ http = NoUpgrade
    /\ wc = IdleClient
    /\ hook = <<>>
    /\ DispIdle
    /\ subs = {0}
    /\ chans = (0 :> MakeChan(64))
    /\ next = 1
    /\ pubs = [p \in Publishers |-> IdlePublisher]
    /\ cancelled = {}
    /\ cancels = 0
    /\ posts = 0
    /\ faults = {}
    /\ sess = [NewSession(TRUE, [raw |-> "", norm |-> ""]) EXCEPT !.subId = 0]
    /\ rpc = "read"
    /\ ppc = "select"
    /\ fpc = "select"
    /\ mu = ""
    /\ done = 0
    /\ wire = <<>>
    /\ nread = 0
    /\ npings = 0

\* the handler receives a request
HookPost ==
    /\ \E req \in HookRequests(posts + 1) :
         /\ WebhookPost(1, SessionRoom, {req})
         /\ hook' = Append(hook, req)
    /\ UNCHANGED <<disp, http, wc, dpc, dreq, di, attempts, lastErr, dresp, upcalls,
                   replies>>
    /\ UNCHANGED sessVars

NextHook ==
    \/ HookPost
    \/ PubLock(1) /\ UNCHANGED <<dispVars, sessVars>>
    \/ PubSend(1) /\ UNCHANGED <<dispVars, sessVars>>
    \/ PubDone(1) /\ UNCHANGED <<dispVars, sessVars>>
    \/ FwdRecv
    \/ FwdLock
    \/ FwdWrite

SpecHook == InitHook /\ [][NextHook]_vars

-----------------------------------------------------------------------------
(* Properties of Dispatcher.Handle, checked under SpecDisp.                 *)

\* the reply is a well-formed JSON-RPC envelope
IsEnvelope(reply) ==
    reply.err = "" /\ reply.payload.form = "object" /\ reply.payload.jsonrpc = "2.0"

\* C2: Handle returns a non-nil Response whose id bytes equal the id bytes
\* of the Request, on every path
C2_ResponseIdEqualsRequestId ==
    dpc = "done" => dresp.set /\ dresp.id = dreq.id

C10_EnvelopeReturnedUnchanged ==
    \A i \in 1..Len(replies) :
        IsEnvelope(replies[i]) =>
            /\ dpc = "done"
            /\ Len(upcalls) = i
            /\ dresp.result = replies[i].payload.result
            /\ dresp.error = replies[i].payload.error

-----------------------------------------------------------------------------
(* Properties of the event bus and of the webhook handler, checked under    *)
(* SpecBus.                                                                 *)

\* C4: a subscription's channel is closed exactly once however often and in
\* whatever order its cancel function is called: the first call removes the
\* id from the table and closes the channel, later calls change nothing
C4_ChannelClosedOnce ==
    /\ \A id \in DOMAIN chans :
          chans[id].closes = (IF id \in cancelled THEN 1 ELSE 0)
    /\ subs \cap cancelled = {}
    /\ "close of closed channel" \notin faults

\* the cancel function of the only subscription was called twice
C4_Witness ==
    /\ next = 1
    /\ cancels >= 2
    /\ chans[0].closes = 1

\* C5: Publish never sends on a closed channel, and an event whose Publish
\* starts after a cancel returned is never enqueued on that subscriber's
\* channel
C5_NoSendAfterCancel ==
    /\ "send on closed channel" \notin faults
    /\ "enqueue after cancel" \notin faults
    /\ \A p \in Publishers :
          pubs[p].pc = "send" =>
              \A id \in pubs[p].todo : chans[id].closes = 0 /\ id \notin pubs[p].pre

\* a Publish that started after a cancel has enqueued on a remaining channel
C5_Witness ==
    \E p \in Publishers :
        /\ pubs[p].pc = "send"
        /\ pubs[p].pre # {}
        /\ \E l \in pubs[p].log : l.sent

\* C6: Publish never waits: a full queue drops the event for that subscriber
\* only, every other subscriber of the table still gets it, and a POST is
\* answered 202 whatever the queues held
C6_PublishNeverBlocks ==
    \A p \in Publishers :
        /\ pubs[p].pc = "send" =>
              /\ \A l \in pubs[p].log : l.sent <=> (l.len < l.cap)
              /\ {l.id : l \in pubs[p].log} \cup pubs[p].todo = subs
              /\ {l.id : l \in pubs[p].log} \cap pubs[p].todo = {}
              /\ ENABLED (PubSend(p) \/ PubDone(p))
        /\ (pubs[p].pc = "idle" /\ pubs[p].method = "POST" /\ pubs[p].status # 400) =>
              pubs[p].status = 202
        /\ pubs[p].pc # "idle" => pubs[p].method = "POST"

\* a Publish has visited every subscriber: one queue was full, another took
\* the event
C6_Witness ==
    \E p \in Publishers :
        /\ pubs[p].pc = "send"
        /\ pubs[p].todo = {}
        /\ \E l1, l2 \in pubs[p].log : ~l1.sent /\ l2.sent

-----------------------------------------------------------------------------
(* Properties of a session, checked under Spec and FairSpec.                *)

\* the response frames on the wire that were written for the n-th frame read
ResponsesTo(n) ==
    {i \in DOMAIN wire : wire[i].n = n /\ wire[i].frame.kind = "response"}

\* the reader is between two requests, or has left the read loop
ReaderBetweenRequests == rpc \in {"read", "ack", "cancel", "close", "done"}

\* C1: every frame that ParseRequest accepts is answered with exactly one
\* response frame on the socket, whatever the dispatcher and whatever the
\* upstream replied
C1_OneResponsePerRequest ==
    (ReaderBetweenRequests /\ ~sess.werr) =>
        \A n \in sess.valid : Cardinality(ResponsesTo(n)) = 1

\* the task is inside its write on the socket
InWrite(task) ==
    \/ task = "reader" /\ rpc = "write"
    \/ task = "ping" /\ ppc = "write"
    \/ task = "fwd" /\ fpc = "write"

\* C3: at most one of the reader, the forwarder and the pinger is inside a
\* write on the socket at any time, and every write is made by the holder of
\* the session's mutex
C3_WritesSerialized ==
    /\ Cardinality({t \in Tasks : InWrite(t)}) <= 1
    /\ \A t \in Tasks : InWrite(t) <=> (mu = t)

\* the reader writes while the forwarder waits for the mutex with an event
C3_Witness ==
    /\ rpc = "write"
    /\ mu = "reader"
    /\ fpc = "lock"

\* the notification a session owes its client for an event
Expected(ev) ==
    [kind |-> "notification", jsonrpc |-> "2.0", hasId |-> FALSE, id |-> "",
     method |-> "rpc.Event." \o (IF ev.service = "" THEN "BlizzardRDK" ELSE ev.service)
                             \o "." \o (IF ev.name = "" THEN "Unknown" ELSE ev.name),
     hasResult |-> FALSE, result |-> NoResult, hasError |-> FALSE, error |-> NoError,
     params |-> [device |-> ev.device, service |-> ev.service, event |-> ev.name,
                 payload |-> ev.payload, correlationId |-> ""]]

\* the session has subscribed
Subscribed == sess.hasBus /\ sess.subId \in DOMAIN chans

\* the events enqueued on the session's channel so far, oldest first
Enqueued == chans[sess.subId].hist

\* the positions of the wire that hold the notification of the event
NotificationsOf(ev) == {i \in DOMAIN wire : wire[i].frame = Expected(ev)}

\* the event notifications on the wire, oldest first
EventsWritten ==
    LET notes == SelectSeq(wire, LAMBDA w : w.frame.kind = "notification"
                                           /\ w.frame.method # "Gateway.Ack")
    IN  [i \in 1..Len(notes) |-> notes[i].frame]

\* every task of the session has returned
Terminated == rpc = "done" /\ ppc = "done" /\ fpc = "done"

\* C7 as stated: every event enqueued for a session has exactly one
\* notification written on its socket, also when the session terminates
\* while events are queued; at termination nothing more will be written
C7_EveryEventNotified ==
    (Subscribed /\ Terminated) =>
        \A k \in 1..Len(Enqueued) : Cardinality(NotificationsOf(Enqueued[k])) = 1

RECURSIVE IsSubSeq(_, _)
\* s is t with some elements left out
IsSubSeq(s, t) ==
    IF s = <<>> THEN TRUE
    ELSE IF t = <<>> THEN FALSE
    ELSE IF Head(s) = Head(t) THEN IsSubSeq(Tail(s), Tail(t))
    ELSE IsSubSeq(s, Tail(t))

\* the notifications owed for a sequence of events
ExpectedAll(evs) == [i \in 1..Len(evs) |-> Expected(evs[i])]

\* no event is notified twice or out of order, and while the socket is open
\* and no write on it has failed, every enqueued event is written, held by
\* the forwarder, or still in the channel
EventsAccounted ==
    Subscribed =>
        /\ IsSubSeq(EventsWritten, ExpectedAll(Enqueued))
        /\ \A k \in 1..Len(Enqueued) : Cardinality(NotificationsOf(Enqueued[k])) <= 1
        /\ (~sess.werr /\ ~sess.closed) =>
              ExpectedAll(Enqueued) =
                  EventsWritten
                  \o (IF sess.fev = NoEvent THEN <<>> ELSE <<Expected(sess.fev)>>)
                  \o ExpectedAll(chans[sess.subId].buf)

\* the k-th event was enqueued for the session
EnqueuedAt(k) == Subscribed /\ Len(Enqueued) >= k

\* the k-th event is on the wire, or the session has stopped serving: the
\* terminator is closed or a write on the socket has failed
WrittenOrStopped(k) ==
    \/ done > 0
    \/ sess.werr
    \/ EnqueuedAt(k) /\ Cardinality(NotificationsOf(Enqueued[k])) = 1

\* C7, amended: an enqueued event gets at most one notification, in order,
\* and it does get it unless the session terminates or a write on its socket
\* fails before; an event still queued then is never written
C7_NotifiedUnlessStopped ==
    /\ []EventsAccounted
    /\ \A k \in 1..MaxInputs : EnqueuedAt(k) ~> WrittenOrStopped(k)

\* the session terminated after writing one event, another is still queued
C7_Witness ==
    /\ Subscribed
    /\ Terminated
    /\ Len(Enqueued) = 2
    /\ Cardinality(NotificationsOf(Enqueued[1])) = 1
    /\ chans[sess.subId].buf = <<Enqueued[2]>>

-----------------------------------------------------------------------------
(* Further properties of MultiServiceDispatcher.Handle, checked under       *)
(* SpecDisp.                                                                *)

\* the attempt entries of the first n services of the list
TransportErrors(n) ==
    [i \in 1..n |-> [service |-> disp.services[i], status |-> "transport_error"]]

\* Handle has returned after the call to every service failed
AllFailed ==
    /\ disp.kind = "multi"
    /\ dpc = "done"
    /\ Len(disp.services) > 0
    /\ Len(replies) = Len(disp.services)
    /\ \A i \in 1..Len(replies) : replies[i].err # ""

\* C11: when the call fails for each of the k services, Handle returns an
\* error response with code -32100 whose data lists exactly k
\* transport_error entries, one per service in list order, and the last
\* underlying error
C11_ExhaustedListsEveryAttempt ==
    AllFailed =>
        LET k == Len(disp.services)
        IN  /\ dresp.set
            /\ dresp.id = dreq.id
            /\ dresp.result = NoResult
            /\ dresp.error.set
            /\ dresp.error.code = -32100
            /\ dresp.error.attempts = TransportErrors(k)
            /\ dresp.error.data =
                  "svc=" \o disp.services[k]
                         \o " dest=" \o disp.prefix \o disp.device \o "/" \o disp.services[k]
                         \o " err=" \o replies[k].err
            /\ Len(upcalls) = k

\* two services, two different failures
C11_Witness ==
    /\ AllFailed
    /\ Len(disp.services) = 2
    /\ replies[1].err # replies[2].err
    /\ dresp.error.code = -32100

\* C12: with an empty service list Handle returns -32603 "no services
\* configured", with a missing client (the list being checked first) -32603
\* "no client configured"; in both cases it makes no upstream call
C12_Preconditions ==
    (disp.kind = "multi" /\ dpc # "idle"
       /\ (Len(disp.services) = 0 \/ ~disp.hasClient)) =>
        /\ dpc = "done"
        /\ upcalls = <<>>
        /\ replies = <<>>
        /\ dresp.set
        /\ dresp.id = dreq.id
        /\ dresp.result = NoResult
        /\ dresp.error.set
        /\ dresp.error.code = -32603
        /\ dresp.error.message = (IF Len(disp.services) = 0
                                  THEN "no services configured"
                                  ELSE "no client configured")

\* Handle has returned from a dispatcher that has services but no client
C12_Witness ==
    /\ disp.kind = "multi"
    /\ dpc = "done"
    /\ Len(disp.services) > 0
    /\ ~disp.hasClient
    /\ dresp.error.message = "no client configured"

-----------------------------------------------------------------------------
(* Termination of a session, checked under TermSpec and Spec.               *)

\* the reader has left its read loop
ReaderStopped == rpc \in {"cancel", "close", "done"}

\* C13: the reader closes the terminator once, when it gets a read error,
\* and returns; from then on the ping emitter and the event forwarder
\* eventually return, wherever they were
C13_TerminatorUnblocks ==
    /\ [](done <= 1)
    /\ [](done = 1 <=> ReaderStopped)
    /\ [][done' # done => (rpc = "read" /\ rpc' = "cancel")]_vars
    /\ (done = 1) ~> (ppc = "done" /\ fpc = "done")

\* the terminator is closed while the ping emitter holds the mutex and the
\* forwarder waits for it with an event in hand
C13_Witness ==
    /\ done = 1
    /\ ppc = "write"
    /\ mu = "ping"
    /\ fpc = "lock"

\* C14: once the run of a session has returned, the bus subscriber table does
\* not contain the session's subscription and its channel is closed
C14_CancelledOnReturn ==
    (rpc = "done" /\ sess.hasBus) =>
        /\ sess.subId \notin subs
        /\ sess.subId \in cancelled
        /\ chans[sess.subId].closes = 1
        /\ subs = {}

\* a session with a subscription has returned, an event still in its channel
C14_Witness ==
    /\ rpc = "done"
    /\ sess.hasBus
    /\ sess.subId \in cancelled
    /\ chans[sess.subId].closes = 1
    /\ chans[sess.subId].buf # <<>>

-----------------------------------------------------------------------------
(* The read loop of a session, checked under Spec.                          *)

\* the frames on the wire written by the reader for the n-th inbound frame
ReaderFrames(n) ==
    {i \in 1..Len(wire) :
        wire[i].n = n /\ (wire[i].frame.kind = "response"
                            \/ wire[i].frame.method = "Gateway.Ack")}

\* the n-th inbound frame was read and ParseRequest rejected it, and the
\* reader has written its answer
Rejected(n) ==
    /\ n \in 1..nread
    /\ n \notin sess.valid
    /\ \E i \in 1..Len(wire) : wire[i].n = n /\ wire[i].frame.kind = "response"

\* C15: the answer to an inbound frame that ParseRequest rejects is one error
\* response with code -32600, the message of the parse failure, and an id
\* field whose value is null
C15_ParseErrorHasNullId ==
    \A n \in 1..MaxInputs :
        Rejected(n) =>
            /\ Cardinality(ReaderFrames(n)) = 1
            /\ \A i \in ReaderFrames(n) :
                  /\ wire[i].frame.hasError
                  /\ wire[i].frame.error.code = -32600
                  /\ wire[i].frame.error.message
                        \in {"invalid character", "unsupported jsonrpc version",
                             "method required"}
                  /\ wire[i].frame.hasId
                  /\ wire[i].frame.id = "null"

\* the codes of the errors reported per request
ReportedCodes == {-32600, -32603, -32100}

\* the reader is about to finish the write of an error response
ReportsError ==
    /\ rpc = "write"
    /\ sess.out.kind = "response"
    /\ sess.out.hasError
    /\ sess.out.error.code \in ReportedCodes

\* C16: a parse error, an internal error or a transport error on one request
\* does not end the session: after the write of its response the reader goes
\* on (to the ack of the request, or to the next read), and the reader stops
\* only from a failed socket read
C16_ErrorsDoNotEndSession ==
    /\ [][(ReportsError /\ rpc' # rpc) => (rpc' \in {"read", "ack"} /\ done' = 0)]_vars
    /\ [][(~ReaderStopped /\ ReaderStopped') => (rpc = "read" /\ wire' = wire)]_vars
    /\ [](ReaderStopped => done = 1)

\* all three kinds of error were reported on sessions that went on: a second
\* frame is being answered after the error response to the first
C16_Witness ==
    /\ nread = 2
    /\ ReportsError
    /\ \E i \in 1..Len(wire) :
          /\ wire[i].n = 1
          /\ wire[i].frame.hasError
          /\ wire[i].frame.error.code \in ReportedCodes
          /\ wire[i].frame.error.code # sess.out.error.code

-----------------------------------------------------------------------------
(* The synthetic acknowledgment, checked under Spec.                        *)

\* the recognized truthy values of the flag, after trim and lower-casing
Truthy(v) == v.norm \in {"1", "true", "yes", "on", "enable", "enabled"}

\* the string a JSON id stands for: the text between the quotes of a JSON
\* string, the text itself otherwise
IdAsString(raw) == IF raw = "\"abc\"" THEN "abc" ELSE raw

\* the positions on the wire of the responses to the n-th inbound frame
ResponseAt(n) ==
    {i \in 1..Len(wire) : wire[i].n = n /\ wire[i].frame.kind = "response"}

\* the positions on the wire of the acks written for the n-th inbound frame
AckAt(n) ==
    {i \in 1..Len(wire) : wire[i].n = n /\ wire[i].frame.method = "Gateway.Ack"}

\* the reader is between two frames and no write on the socket has failed
ReaderIdle == rpc = "read" /\ ~sess.werr /\ ~sess.closed

\* C17: after each response the session writes one Gateway.Ack notification
\* if and only if GATEWAY_ACK holds a recognized truthy value; the ack
\* follows the response of the same request, its correlationId is the request
\* id as a string, and without a truthy flag no Gateway.Ack is ever written
C17_AckAfterEachResponse ==
    /\ ReaderIdle =>
          \A n \in 1..nread : \A i \in ResponseAt(n) :
              /\ Cardinality(AckAt(n)) = (IF Truthy(sess.ack) THEN 1 ELSE 0)
              /\ \A j \in AckAt(n) : j > i
    /\ (rpc = "write" /\ sess.out.method = "Gateway.Ack") =>
          sess.out.params.correlationId = IdAsString(sess.req.id)
    /\ ~Truthy(sess.ack) =>
          \A i \in 1..Len(wire) : wire[i].frame.method # "Gateway.Ack"

\* a session served by the Echo dispatcher, without event bus
EchoSession == disp.kind = "echo" /\ ~sess.hasBus

\* the positions on the wire of the notifications written for the n-th
\* inbound frame
NotificationAt(n) ==
    {i \in 1..Len(wire) :
        /\ wire[i].n = n
        /\ wire[i].frame.kind = "notification"
        /\ wire[i].frame.method # ""
        /\ ~wire[i].frame.hasId}

C19_NotificationsCarryNoId ==
    \A i \in 1..Len(wire) :
        /\ (wire[i].frame.kind = "notification" \/ wire[i].frame.method # "") =>
              (~wire[i].frame.hasId /\ wire[i].frame.id = "")
        /\ wire[i].frame.hasId =>
              (wire[i].frame.kind = "response" /\ wire[i].frame.method = "")

\* a response with an id, its Gateway.Ack and a device event notification
\* are on the wire
C19_Witness ==
    /\ \E i \in 1..Len(wire) : wire[i].frame.kind = "response" /\ wire[i].frame.hasId
    /\ \E i \in 1..Len(wire) :
          /\ wire[i].frame.method = "Gateway.Ack"
          /\ wire[i].frame.params.correlationId # ""
    /\ \E i \in 1..Len(wire) :
          /\ wire[i].frame.kind = "notification"
          /\ wire[i].frame.params.device # ""

-----------------------------------------------------------------------------
(* The dispatcher of a session, checked under SpecServe.                    *)

\* ServeHTTP has served the path /ws/<device>/<service> with a single-service
\* base dispatcher and no fallback list
SingleBound ==
    /\ http.pc = "run"
    /\ http.base.kind = "single"
    /\ Len(http.segs) = 3
    /\ http.segs[1] = <<"ws">>
    /\ http.env.DEST_SERVICE_FALLBACKS = <<>>

\* the destination prefix and the canonical service the environment gives
DestPrefix == IF http.env.DEST_PREFIX = <<>> THEN <<"mac:">> ELSE http.env.DEST_PREFIX

CanonicalService ==
    IF http.env.CANONICAL_SERVICE_NAME = "" THEN "BlizzardRDK"
    ELSE http.env.CANONICAL_SERVICE_NAME

\* the device segment without one leading destination prefix
StrippedDevice ==
    LET seg == http.segs[2]
    IN  IF Len(seg) >= Len(DestPrefix) /\ SubSeq(seg, 1, Len(DestPrefix)) = DestPrefix
        THEN SubSeq(seg, Len(DestPrefix) + 1, Len(seg))
        ELSE seg

\* the string starts with the destination prefix twice
Doubled(str) ==
    /\ Len(str) >= 2 * Len(DestPrefix)
    /\ SubSeq(str, 1, 2 * Len(DestPrefix)) = DestPrefix \o DestPrefix

\* C20 as stated: the session's dispatcher has destination = destPrefix +
\* device + "/" + canonicalService and serviceName = canonicalService, the
\* device being the path segment with the prefix stripped, so that the
\* destination never starts with the prefix twice; the path service is not
\* the service of the destination unless it is the canonical one
C20_DestinationNeverDoubled ==
    SingleBound =>
        /\ disp.kind = "single"
        /\ disp.dest = Text(DestPrefix \o StrippedDevice) \o "/" \o CanonicalService
        /\ disp.service = CanonicalService
        /\ ~Doubled(DestPrefix \o StrippedDevice)

\* C20: the destination is destPrefix + device + "/" + canonicalService and
\* the serviceName is canonicalService, where one leading destPrefix of the
\* device segment is stripped: the destination starts with the prefix twice
\* only when the device segment itself did; the service of the destination
\* is the canonical one whatever the path service
C20_DestinationStrippedOnce ==
    SingleBound =>
        /\ disp.kind = "single"
        /\ disp.dest = Text(DestPrefix \o StrippedDevice) \o "/" \o CanonicalService
        /\ disp.service = CanonicalService
        /\ disp.source = http.base.source
        /\ Doubled(DestPrefix \o StrippedDevice) <=> Doubled(http.segs[2])

\* a device segment that carries the prefix was bound under an alias
C20_Witness ==
    /\ SingleBound
    /\ http.segs[2] = <<"mac:", "dev1">>
    /\ http.segs[3] = <<"config">>
    /\ disp.dest = "mac:dev1/BlizzardRDK"
    /\ disp.service = "BlizzardRDK"

\* ServeHTTP has served a path /ws/<device>/<service> with a single-service
\* base dispatcher and a fallback list
FallbacksBound ==
    /\ http.pc = "run"
    /\ http.base.kind = "single"
    /\ Len(http.segs) >= 3
    /\ http.segs[1] = <<"ws">>
    /\ http.env.DEST_SERVICE_FALLBACKS # <<>>

\* the range of a sequence
Range(seq) == {seq[i] : i \in 1..Len(seq)}

RECURSIVE NotPresent(_, _)
\* the names of the sequence that are not empty and not present before, each
\* once, in order
NotPresent(names, present) ==
    IF names = <<>> THEN <<>>
    ELSE IF Head(names) = "" \/ Head(names) \in present
    THEN NotPresent(Tail(names), present)
    ELSE <<Head(names)>> \o NotPresent(Tail(names), present \cup {Head(names)})

\* the configured fallback names, trimmed
TrimmedFallbacks ==
    [i \in 1..Len(http.env.DEST_SERVICE_FALLBACKS) |->
        IF http.env.DEST_SERVICE_FALLBACKS[i] = " legacy " THEN "legacy"
        ELSE http.env.DEST_SERVICE_FALLBACKS[i]]

\* C21: with a fallback list configured the session's dispatcher is a
\* multi-service dispatcher whose service list is the canonical service, then
\* the alias if it differs, then each fallback not already present, in that
\* order and without any duplicate entry
C21_ServiceListWithoutDuplicates ==
    FallbacksBound =>
        /\ disp.kind = "multi"
        /\ disp.services =
              NotPresent(<<CanonicalService, Text(http.segs[3])>> \o TrimmedFallbacks, {})
        /\ Cardinality(Range(disp.services)) = Len(disp.services)

-----------------------------------------------------------------------------
(* The request of the upstream client, checked under SpecClient.            *)

\* the scheme words, in any case
SchemeWords == {"Basic", "BEARER", "digest"}

\* the credential between its first and its last token that is no space
Trimmed(credential) ==
    LET words == {i \in 1..Len(credential) : credential[i] # " "}
    IN  IF words = {} THEN <<>>
        ELSE LET first == CHOOSE i \in words : \A j \in words : i <= j
                 last == CHOOSE i \in words : \A j \in words : j <= i
             IN  SubSeq(credential, first, last)

\* the trimmed credential begins with a scheme word and a space
HasScheme(credential) ==
    /\ Len(Trimmed(credential)) >= 2
    /\ Trimmed(credential)[1] \in SchemeWords
    /\ Trimmed(credential)[2] = " "

\* C22: a credential that after trimming begins, in any case, with a scheme
\* word and a space is sent as the trimmed value; any other non-empty
\* credential is sent as "Basic " followed by the trimmed value; an empty
\* credential sends no Authorization header
C22_AuthorizationNormalized ==
    \A c \in Callers :
        wc.pc[c] = "sent" =>
            IF wc.Authorization = <<>>
            THEN ~wc.Header[c].hasAuthorization
            ELSE /\ wc.Header[c].hasAuthorization
                 /\ wc.Header[c].Authorization =
                       (IF HasScheme(wc.Authorization)
                        THEN Trimmed(wc.Authorization)
                        ELSE <<"Basic", " ">> \o Trimmed(wc.Authorization))

\* a credential with a scheme in upper case was sent as it is, one with
\* surrounding spaces was sent trimmed, and a bare one with the prefix
C22_Witness ==
    /\ wc.pc[1] = "sent"
    /\ wc.Authorization = <<"BEARER", " ", "dXNlcjpwYXNz">>
    /\ wc.Header[1].Authorization = <<"BEARER", " ", "dXNlcjpwYXNz">>

-----------------------------------------------------------------------------
(* The webhook handler and the event notifications, checked under SpecHook. *)

\* a request the handler reads to the end: a POST whose body can be read
Readable(req) == req.method = "POST" /\ req.body.readOK

\* the requests received so far that the handler reads to the end
Accepted == SelectSeq(hook, Readable)

\* the latest request
LastRequest == hook[Len(hook)]

\* the events published since the session subscribed, in order: its channel
\* has room for all of them
Published == chans[0].hist

\* the handler has answered every request it received
HandlerIdle == pubs[1].pc = "idle"

\* C23: a webhook request whose method is not POST is answered 405 and
\* publishes no event on the bus
C23_OnlyPostAccepted ==
    /\ (hook # <<>> /\ LastRequest.method # "POST") =>
          /\ HandlerIdle
          /\ pubs[1].status = 405
          /\ pubs[1].ev = NoEvent
    /\ Len(Published) <= Len(Accepted)
    /\ HandlerIdle => Len(Published) = Len(Accepted)

\* a GET was answered after a POST: one event was published, by the POST
C23_Witness ==
    /\ Len(hook) = 2
    /\ Readable(hook[1])
    /\ hook[2].method = "GET"
    /\ pubs[1].status = 405
    /\ Len(Published) = 1

\* the parse path the claim gives a readable POST
PathOf(req) ==
    IF req.msgpack /\ req.body.bytes # "" /\ req.body.wrpOK THEN "wrp"
    ELSE IF req.body.jsonOK /\ req.body.device # "" /\ req.body.name # "" THEN "json"
    ELSE "header"

\* the event is the one the request's parse path publishes (for a WRP
\* delivery: with the payload of the message)
PublishedBy(ev, req) ==
    CASE PathOf(req) = "wrp" -> ev.payload = req.body.wpayload
      [] PathOf(req) = "json" ->
            ev = [device |-> req.body.device, service |-> req.body.service,
                  name |-> req.body.name, payload |-> req.body.jpayload]
      [] OTHER ->
            LET device == IF req.hdr.xmidt # "" THEN req.hdr.xmidt ELSE req.hdr.devid
            IN  ev = [device |-> IF device = " mac:dev1 " THEN "mac:dev1" ELSE device,
                      service |-> IF req.hdr.service = "" THEN "BlizzardRDK"
                                  ELSE req.hdr.service,
                      name |-> IF req.hdr.name = "" THEN "Unknown" ELSE req.hdr.name,
                      payload |-> req.body.bytes]

\* C24: every webhook POST whose body can be read publishes exactly one event
\* and is answered 202; the event is that of the first matching parse path
\* in the order WRP, JSON envelope, header fallback, and the header fallback
\* always publishes, with its defaults and the raw body as payload
C24_OneEventPerPost ==
    /\ Len(Published) \in {Len(Accepted) - 1, Len(Accepted)}
    /\ \A k \in 1..Len(Published) : PublishedBy(Published[k], Accepted[k])
    /\ ~HandlerIdle =>
          /\ Readable(LastRequest)
          /\ PublishedBy(pubs[1].ev, LastRequest)
    /\ HandlerIdle => Len(Published) = Len(Accepted)
    /\ (HandlerIdle /\ hook # <<>> /\ Readable(LastRequest)) => pubs[1].status = 202

\* a JSON body without event name fell through to the header fallback and
\* was published by it, after a JSON envelope
C24_Witness ==
    /\ HandlerIdle
    /\ Len(hook) = 2
    /\ PathOf(hook[1]) = "json"
    /\ hook[2].body.jsonOK /\ PathOf(hook[2]) = "header"
    /\ Len(Published) = 2
    /\ Published[2].device = "mac:dev1"
    /\ Published[2].name = "Unknown"
    /\ pubs[1].status = 202

\* the position of the first "/" of a string, 0 when there is none
FirstSlash(str) ==
    IF \E i \in 1..Len(str) : str[i] = "/"
    THEN CHOOSE i \in 1..Len(str) : str[i] = "/" /\ \A j \in 1..(i - 1) : str[j] # "/"
    ELSE 0

\* the string up to its first "/", and the string after it
UpToSlash(str) ==
    IF FirstSlash(str) = 0 THEN str ELSE SubSeq(str, 1, FirstSlash(str) - 1)

AfterSlash(str) ==
    IF FirstSlash(str) = 0 THEN <<>> ELSE SubSeq(str, FirstSlash(str) + 1, Len(str))

\* the event name the claim gives a destination
NameOf(dest) ==
    LET rest == IF dest # <<>> /\ dest[1] = "event:" THEN Tail(dest) ELSE dest
        parts == Split(rest, "/")
        name == IF Len(parts) >= 2
                THEN Join([i \in 1..(Len(parts) - 1) |-> Text(parts[i + 1])], ".")
                ELSE Text(rest)
    IN  IF name = "" THEN "Unknown" ELSE name

\* the device and the event name of a WRP delivery, as the claim gives them
DeviceAndName(ev, req) ==
    /\ ev.device = Text(UpToSlash(req.body.source))
    /\ ev.name = NameOf(req.body.dest)
    /\ ev.payload = req.body.wpayload

\* C25: the event of a binary-framed WRP delivery has device = source up to
\* the first "/", service = everything of source after the first "/"
\* (BlizzardRDK when there is none), and name = destination without a leading
\* "event:", its parts after the first joined with "." when there are two or
\* more, else the whole remainder, else Unknown
C25_EventOfWRPDelivery ==
    \A k \in 1..Len(Published) :
        PathOf(Accepted[k]) = "wrp" =>
            /\ DeviceAndName(Published[k], Accepted[k])
            /\ Published[k].service =
                  (IF AfterSlash(Accepted[k].body.source) = <<>> THEN "BlizzardRDK"
                   ELSE Text(AfterSlash(Accepted[k].body.source)))

\* C26: the method of an event Notification is "rpc.Event." + service + "." +
\* eventName, with BlizzardRDK and Unknown in place of an empty service and
\* an empty name, for the events of all three parse paths
C26_EventMethod ==
    /\ Len(wire) <= Len(Published)
    /\ \A i \in 1..Len(wire) :
          /\ wire[i].frame.kind = "notification"
          /\ wire[i].frame.params.payload = Published[i].payload
          /\ wire[i].frame.method =
                "rpc.Event."
                \o (IF Published[i].service = "" THEN "BlizzardRDK" ELSE Published[i].service)
                \o "."
                \o (IF Published[i].name = "" THEN "Unknown" ELSE Published[i].name)

\* the notifications of a JSON envelope that names no service and of a WRP
\* delivery are on the wire
C26_Witness ==
    /\ Len(wire) = 2
    /\ Len(hook) = 2
    /\ PathOf(hook[1]) = "json"
    /\ Published[1].service = ""
    /\ wire[1].frame.method = "rpc.Event.BlizzardRDK.heartbeat"
    /\ PathOf(hook[2]) = "wrp"
    /\ wire[2].frame.method = "rpc.Event.config.Event"


-----------------------------------------------------------------------------
(* Validation of inbound frames, checked under Spec.                        *)

\* what the claim requires of an accepted frame
WellFormed(f) == f.json /\ f.jsonrpc = "2.0" /\ f.method # ""

\* the reader takes the next data frame from the socket
ReadsFrame == rpc = "read" /\ nread' = nread + 1 /\ rpc' # "read"

\* the error responses written so far with the given message
ErrorsWritten(msg) ==
    {i \in 1..Len(wire) : /\ wire[i].frame.kind = "response"
                          /\ wire[i].frame.hasError
                          /\ wire[i].frame.error.message = msg}

\* C27: ParseRequest accepts a frame exactly when it is JSON with version tag
\* "2.0" and a non-empty method; a rejected frame is answered with an error
\* of code -32600, and the dispatcher runs only for accepted frames
C27_ParseRequestValidates ==
    /\ [](\A f \in Frames : (ParseError(f) = "") <=> WellFormed(f))
    /\ [][ReadsFrame =>
            \/ /\ rpc' = "handle"
               /\ (nread + 1) \in sess'.valid
               /\ sess'.req.method # ""
            \/ /\ rpc' = "lock"
               /\ (nread + 1) \notin sess'.valid
               /\ sess'.out.kind = "response"
               /\ sess'.out.hasError
               /\ sess'.out.error.code = -32600
               /\ ~sess'.out.hasResult
               /\ UNCHANGED dispVars]_vars
    /\ [](dpc # "idle" => nread \in sess.valid)
    /\ [](\A n \in 1..MaxInputs : Rejected(n) =>
              \A i \in ReaderFrames(n) : /\ wire[i].frame.hasError
                                         /\ wire[i].frame.error.code = -32600)

\* a frame with a wrong version tag and a frame without method were both
\* answered with an error, and no dispatcher was called
C27_Witness ==
    /\ nread = 2
    /\ sess.valid = {}
    /\ ErrorsWritten("unsupported jsonrpc version") # {}
    /\ ErrorsWritten("method required") # {}
    /\ \A i \in 1..Len(wire) : wire[i].frame.kind = "response" => wire[i].frame.error.code = -32600
    /\ dpc = "idle"
    /\ upcalls = <<>>



-----------------------------------------------------------------------------
(* The messages of the multi-service dispatcher, checked under SpecDisp.    *)

\* C28: every message the multi-service dispatcher sends for one request is
\* a SimpleRequestResponse of content type application/json whose
\* TransactionUUID is the raw id of the request, quotes included, and whose
\* payload is the one serialization of the request; the i-th message goes to
\* prefix + device + "/" + service i with service name service i, and the
\* messages of one request differ in nothing else
C28_AttemptMessages ==
    disp.kind = "multi" =>
        \A i \in 1..Len(upcalls) :
            /\ upcalls[i].type = "SimpleRequestResponse"
            /\ upcalls[i].ctype = "application/json"
            /\ upcalls[i].txn = dreq.id
            /\ upcalls[i].payload.method = dreq.method
            /\ upcalls[i].payload.jsonrpc = dreq.jsonrpc
            /\ upcalls[i].payload.hasId = (dreq.id # "")
            /\ upcalls[i].payload.hasId => upcalls[i].payload.id = dreq.id
            /\ upcalls[i].dest = disp.prefix \o disp.device \o "/" \o disp.services[i]
            /\ upcalls[i].service = disp.services[i]
            /\ [upcalls[i] EXCEPT !.dest = "", !.service = ""]
                  = [upcalls[1] EXCEPT !.dest = "", !.service = ""]

\* a request with a quoted id is at its second attempt
C28_Witness ==
    /\ disp.kind = "multi"
    /\ Len(upcalls) = 2
    /\ dreq.id = "\"abc\""
    /\ upcalls[2].txn = "\"abc\""
    /\ upcalls[1].dest = "mac:dev1/BlizzardRDK"
    /\ upcalls[2].dest = "mac:dev1/config"
    /\ upcalls[1].payload = upcalls[2].payload



-----------------------------------------------------------------------------
(* Payloads that are no envelope, checked under SpecDisp.                   *)

\* the payload is not a well-formed envelope: not a JSON object, or an
\* object without the version tag "2.0"
NotEnvelope(payload) == payload.form # "object" \/ payload.jsonrpc # "2.0"

\* the replies without error whose payload is no envelope
Blobs == {i \in 1..Len(replies) : replies[i].err = "" /\ NotEnvelope(replies[i].payload)}

\* C29: a reply without error whose payload is no envelope ends the loop: it
\* is the last reply, no further message is sent, and the dispatcher returns
\* a response with version tag "2.0", the id of the request, no error, and
\* the bytes of the payload as result
C29_BlobReturnedAtOnce ==
    disp.kind = "multi" =>
        \A i \in Blobs :
            /\ i = Len(replies)
            /\ Len(upcalls) = i
            /\ dpc = "done"
            /\ dresp.set
            /\ dresp.jsonrpc = "2.0"
            /\ dresp.id = dreq.id
            /\ ~dresp.error.set
            /\ dresp.result.t = "raw"
            /\ dresp.result.v = replies[i].payload.bytes

\* the first of two services answered with an object of version 1.0 that
\* carries an id of its own; the second service was not tried
C29_Witness ==
    /\ disp.kind = "multi"
    /\ Len(disp.services) = 2
    /\ Blobs = {1}
    /\ replies[1].payload.jsonrpc = "1.0"
    /\ dreq.id = "\"abc\""
    /\ dresp.id = "\"abc\""
    /\ dresp.result.v = "{\"jsonrpc\":\"1.0\",\"id\":7}"
    /\ Len(upcalls) = 1



-----------------------------------------------------------------------------
(* The members of a response, checked under SpecDisp.                       *)

\* the frame the session writes for the response Handle has returned
ReturnedFrame == ResponseFrame(dresp)

\* C30: every response a dispatcher returns is written with exactly one of
\* result and error, never both and never neither
C30_ExactlyOneOfResultAndError ==
    (dpc = "done" /\ dresp.set) => (ReturnedFrame.hasResult # ReturnedFrame.hasError)



-----------------------------------------------------------------------------
(* Failed writes and the end of a session, checked under TermSpec.          *)

\* the write of a response left nothing but an empty frame: the value
\* could not be encoded and WriteJSON returned the error
EncodeFailed == \E i \in 1..Len(wire) : wire[i].frame.kind = "empty"

\* a write of a response, a notification or a ping has failed: on the
\* network, or in the encoder
WriteFailed == sess.werr \/ EncodeFailed

\* C31: after a failed write of a response, a notification or a ping the
\* reader of the session stops and the session ends
C31_WriteFailureEndsSession == WriteFailed ~> (ReaderStopped /\ rpc = "done")



-----------------------------------------------------------------------------
(* The order of delivery on the bus, checked under SpecBus.                 *)

\* the k-th call of Publish carries the k-th payload: the position of an
\* event in the order in which Publish was called
CallOrder(ev) == CHOOSE k \in 1..Len(PayloadNames) : PayloadNames[k] = ev.payload

\* the events the subscriber has been given, oldest first
ReceivedBy(id) == chans[id].hist

\* C32: what a subscriber receives is a subsequence of the sequence in which
\* Publish was called: no two received events are swapped, with one
\* publisher and with several concurrent publishers
C32_ReceivedInPublishOrder ==
    \A id \in DOMAIN chans :
        \A i, j \in 1..Len(ReceivedBy(id)) :
            i < j => CallOrder(ReceivedBy(id)[i]) < CallOrder(ReceivedBy(id)[j])


-----------------------------------------------------------------------------
(* The handler's dispatcher across sessions, checked under SpecServe.       *)

\* the path asks for a specialization of a single-service base dispatcher
Specializes ==
    Len(http.segs) >= 3 /\ http.segs[1] = <<"ws">> /\ http.base.kind = "single"

-----------------------------------------------------------------------------
(* Concurrent calls on the shared upstream client, checked under            *)
(* SpecClient.                                                              *)

\* the caller is about to write the field wc.Client
WritesClient(c) == wc.pc[c] = "make"

\* the caller is about to read the field wc.Client
ReadsClient(c) == wc.pc[c] \in {"check", "do"}

\* C34: the client shared by the sessions is safe for concurrent use: no
\* call writes a field of it while another call reads or writes that field,
\* the first calls on a client made without HTTP client included
C34_SharedClientSynchronized ==
    \A c, d \in Callers :
        (c # d /\ WritesClient(c)) => ~(ReadsClient(d) \/ WritesClient(d))



-----------------------------------------------------------------------------
(* A 2xx reply that is no WRP message, checked under SpecDisp.              *)

\* the attempts whose 2xx body did not decode as a WRP message
DecodeFailures == {i \in 1..Len(replies) : replies[i].err = "decode wrp"}

\* Handle is about to return, and its last attempt was a decode failure
ReturnsAfterDecodeFailure ==
    disp.kind = "multi" /\ dpc = "done" /\ Len(replies) \in DecodeFailures

-----------------------------------------------------------------------------
(* Waiting in a session and on the bus, checked under Spec.                 *)

\* the task that holds the write mutex is inside its write, which ends
\* within the write deadline
HolderProceeds ==
    /\ mu = "reader" <=> rpc = "write"
    /\ mu = "ping" <=> ppc = "write"
    /\ mu = "fwd" <=> fpc = "write"
    /\ mu = "reader" => ENABLED ReaderWrite
    /\ mu = "ping" => ENABLED PingWrite
    /\ mu = "fwd" => ENABLED FwdWrite

\* a task that waits for the write mutex can take it, or its holder can
\* finish its write
MutexWaitersProceed ==
    /\ rpc = "lock" => (ENABLED ReaderLock \/ mu \in {"ping", "fwd"})
    /\ ppc = "lock" => (ENABLED PingLock \/ mu \in {"reader", "fwd"})
    /\ fpc = "lock" => (ENABLED FwdLock \/ mu \in {"reader", "ping"})

\* Subscribe and cancel wait only for publishers inside Publish, and a
\* publisher inside Publish never waits: it sends or drops, then returns
BusWaitersProceed ==
    /\ rpc \in {"start", "cancel"} =>
          \/ ENABLED RunStart
          \/ ENABLED RunCancel
          \/ \E p \in Readers : ENABLED PubSend(p) \/ ENABLED PubDone(p)
    /\ \A p \in Publishers :
          /\ pubs[p].pc = "rlock" => ENABLED PubLock(p)
          /\ pubs[p].pc = "send" => (ENABLED PubSend(p) \/ ENABLED PubDone(p))

\* the goroutines do not wait for the reader while it is in the dispatcher
\* or in the read, and after the read error they can return
SelectsProceed ==
    /\ rpc = "close" => ENABLED RunClose
    /\ (done > 0 /\ ppc = "select") => ENABLED PingQuit
    /\ (done > 0 /\ fpc = "select") => ENABLED FwdQuit

\* C36: no reachable state of a session with the bus is a deadlock: every
\* task that waits, waits for a task that can take its next step, and the
\* write mutex is held only by a task inside its write, also after a ping
\* write that failed
C36_NoDeadlock ==
    /\ HolderProceeds
    /\ MutexWaitersProceed
    /\ BusWaitersProceed
    /\ SelectsProceed

\* the ping emitter has returned from a failed write, and the reader has
\* taken the mutex after it
C36_Witness ==
    /\ ppc = "done"
    /\ done = 0
    /\ sess.werr
    /\ mu = "reader"
    /\ rpc = "write"



-----------------------------------------------------------------------------
(* Writes after the close of the socket, checked under Spec.                *)

\* the task is inside writeJSON or the ping case and about to write
AttemptsWrite(pc) == pc = "write"

\* C37: once run has closed the socket, neither the event forwarder nor the
\* ping emitter attempts a further write on it
C37_NoWriteAfterClose ==
    sess.closed => ~(AttemptsWrite(fpc) \/ AttemptsWrite(ppc))



-----------------------------------------------------------------------------
(* The order of requests and responses on a session, checked under Spec.    *)

\* the frame numbers of the frames the reader has written, in wire order
\* (the forwarder writes with number 0)
ReaderWrites == SelectSeq([i \in 1..Len(wire) |-> wire[i].n], LAMBDA n : n > 0)

\* the positions of the wire that answer the n-th frame, by kind
AnswersTo(n) == {i \in 1..Len(wire) : wire[i].n = n /\ wire[i].frame.method = ""}

AcksTo(n) == {i \in 1..Len(wire) : wire[i].n = n /\ wire[i].frame.method = "Gateway.Ack"}

\* C38: on one session at most one request is being dispatched at a time,
\* and the answers are written in the order the requests were read: a frame
\* is read only when the answer to the one before it (response and ack) is
\* complete, every frame the reader writes belongs to the frame read last,
\* and the ack of a request follows its response, whatever notifications
\* and pings come between
C38_AnswersInReadOrder ==
    /\ [](dpc # "idle" => (rpc = "handle" /\ sess.out = NoFrame))
    /\ [][nread' # nread =>
            (rpc = "read" /\ dpc = "idle" /\ sess.out = NoFrame /\ nread' = nread + 1)]_vars
    /\ [][(wire' # wire /\ wire'[Len(wire')].n > 0) =>
            (rpc = "write" /\ wire'[Len(wire')].n = nread)]_vars
    /\ [](\A i, j \in 1..Len(ReaderWrites) : i < j => ReaderWrites[i] <= ReaderWrites[j])
    /\ [](\A n \in 1..nread : \A i \in AnswersTo(n), j \in AcksTo(n) : i < j)

\* the response to the first frame, an event notification and the ack of
\* the first frame are on the wire, in this order
C38_Witness ==
    /\ Len(wire) = 3
    /\ wire[1].n = 1 /\ wire[1].frame.kind = "response"
    /\ wire[2].n = 0 /\ wire[2].frame.kind = "notification"
    /\ wire[3].n = 1 /\ wire[3].frame.method = "Gateway.Ack"


-----------------------------------------------------------------------------
(* The write mutex during a dispatcher call, checked under Spec.            *)

\* the reader is inside Dispatcher.Handle
Dispatching == rpc = "handle"

\* C39: the write mutex is never held by the reader while a dispatcher call
\* is in progress, so that the forwarder and the ping emitter can take it
\* and write while the reader waits for the upstream
C39_MutexFreeWhileDispatching ==
    Dispatching =>
        /\ mu # "reader"
        /\ (fpc = "lock" /\ mu # "ping") => ENABLED FwdLock
        /\ (ppc = "lock" /\ mu # "fwd") => ENABLED PingLock
        /\ fpc = "write" => ENABLED FwdWrite
        /\ ppc = "write" => ENABLED PingWrite

\* the reader waits for the upstream reply to its request while the ping
\* emitter writes
C39_Witness ==
    /\ Dispatching
    /\ dpc = "wait"
    /\ nread = 1
    /\ mu = "ping"
    /\ ppc = "write"



-----------------------------------------------------------------------------
(* Normalizing a normalized credential, checked under SpecClient.           *)

\* C40: normalization of the Authorization value is idempotent: the header
\* value Do sets for a configured credential, taken as a credential again,
\* gives the same header value, for whitespace-only values and bare scheme
\* words too
C40_NormalizationIdempotent ==
    \A c \in Callers :
        (wc.pc[c] = "sent" /\ wc.Header[c].hasAuthorization) =>
            AuthorizationHeader(wc.Header[c].Authorization) = wc.Header[c].Authorization

=============================================================================
